---------------------------- MODULE Spec2Model ----------------------------
(***************************************************************************)
(* A model of ddb_compositor: the Index key templates, the query score,    *)
(* the key-condition builder, the table-level index selection, the write  *)
(* path, the read and delete path of a table over a store of items, and   *)
(* the projection and schema validation methods.                           *)
(*                                                                         *)
(* Strings are sequences of one-character strings, so that formatting,     *)
(* prefixes, rstrip and reverse parsing are computed character by          *)
(* character.  A format string is kept as the list of (literal, field)     *)
(* segments that string.Formatter().parse yields for it.                   *)
(***************************************************************************)
EXTENDS Integers, Sequences, FiniteSets, TLC

VARIABLES index, table, field_values, call, result, dynamo_table, writers, requests

vars == <<index, table, field_values, call, result, dynamo_table, writers, requests>>

(***************************************************************************)
(* Bounds of the model.                                                    *)
(***************************************************************************)
MaxInt == 1
MaxSecondary == 2
MaxWriters == 2
MaxCalls == 2
MaxStoreErrors == 1
MaxCallers == 2
MaxKeyLen == 5
MaxAttributes == 12
MaxFields == 3

(***************************************************************************)
(* Python values.                                                          *)
(***************************************************************************)
\* None in a slot that otherwise holds a name (a field name, a key name).
None == "None"

\* None in a slot that otherwise holds a structured value: <<>> is None,
\* <<x>> is the value x.
Null == <<>>
Some(x) == <<x>>
IsNone(o) == Len(o) = 0
Get(o) == o[1]

\* A field value is a str, an int or None.
StrVal(s) == [type |-> "str", s |-> s, n |-> 0]
IntVal(n) == [type |-> "int", s |-> <<>>, n |-> n]
NoneVal == [type |-> "none", s |-> <<>>, n |-> 0]

Digit == <<"0", "1", "2", "3", "4", "5", "6", "7", "8", "9">>

RECURSIVE StrOfInt(_)
StrOfInt(n) ==
    IF n < 10 THEN <<Digit[n + 1]>>
    ELSE StrOfInt(n \div 10) \o <<Digit[(n % 10) + 1]>>

\* str(value)
PyStr(v) ==
    IF v.type = "int" THEN StrOfInt(v.n)
    ELSE IF v.type = "none" THEN <<"N", "o", "n", "e">>
    ELSE v.s

\* round(num / den) for num >= 0, den > 0: Python rounds halves to even.
PyRound(num, den) ==
    LET q == num \div den
        r == num % den
    IN  IF 2 * r < den THEN q
        ELSE IF 2 * r > den THEN q + 1
        ELSE IF q % 2 = 0 THEN q ELSE q + 1

\* list.index(x): the 0-based position of the first occurrence.
ListIndex(list, x) ==
    (CHOOSE i \in 1..Len(list) :
        /\ list[i] = x
        /\ \A j \in 1..(i - 1) : list[j] # x) - 1

InList(x, list) == \E i \in 1..Len(list) : list[i] = x

StartsWith(s, prefix) ==
    /\ Len(prefix) <= Len(s)
    /\ SubSeq(s, 1, Len(prefix)) = prefix

\* s[n:]
DropFirst(s, n) == IF n >= Len(s) THEN <<>> ELSE SubSeq(s, n + 1, Len(s))

(***************************************************************************)
(* Format strings.  Segment(lit, field) is one tuple of                    *)
(* string.Formatter().parse: the literal text, then the placeholder's      *)
(* field (None for a trailing literal).                                    *)
(***************************************************************************)
Segment(lit, field) == [lit |-> lit, field |-> field]

\* str.format(**field_values): KeyError when a placeholder's field is absent.
FormatFails(segments, values) ==
    \E i \in 1..Len(segments) :
        segments[i].field # None /\ segments[i].field \notin DOMAIN values

RECURSIVE FormatText(_, _)
FormatText(segments, values) ==
    IF Len(segments) = 0 THEN <<>>
    ELSE LET seg == Head(segments)
         IN  seg.lit
             \o (IF seg.field = None THEN <<>> ELSE PyStr(values[seg.field]))
             \o FormatText(Tail(segments), values)

\* Index.__format_string_field_list
FormatStringFieldList(format_string) ==
    LET parsed_list == IF IsNone(format_string) THEN <<>> ELSE Get(format_string)
        kept == SelectSeq(parsed_list, LAMBDA x : x.field # None /\ x.field # "")
    IN  [i \in 1..Len(kept) |-> kept[i].field]

\* Index.__ordered_intersection
OrderedIntersection(source_list, match_list) ==
    SelectSeq(source_list, LAMBDA item : item \in match_list)

(***************************************************************************)
(* IndexType and Index.                                                    *)
(***************************************************************************)
PRIMARY == 100
GLOBAL_SECONDARY == 90
LOCAL_SECONDARY == 80

\* Variant of __composite_separator that accepts a separator given with
\* format strings that have no placeholder.
CompositeSeparatorRequiredOnly(partition_fields, sort_fields, separator) ==
    (Len(partition_fields) > 0 \/ Len(sort_fields) > 0) /\ IsNone(separator)

\* Index.__composite_separator: the constructor raises RuntimeError when this
\* holds.
CompositeSeparatorRaises(partition_fields, sort_fields, separator) ==
    (Len(partition_fields) > 0 \/ Len(sort_fields) > 0) = IsNone(separator)

\* Index.__init__
Index(partition_key_name, partition_key_format, sort_key_name, sort_key_format, index_type, name, composite_separator) ==
    [partition_key_name |-> partition_key_name,
     partition_key_format |-> partition_key_format,
     partition_key_format_fields |-> FormatStringFieldList(partition_key_format),
     sort_key_name |-> sort_key_name,
     sort_key_format |-> sort_key_format,
     sort_key_format_fields |-> FormatStringFieldList(sort_key_format),
     type |-> index_type,
     name |-> name,
     composite_separator |-> composite_separator,
     is_primary |-> (index_type = PRIMARY),
     is_global_secondary |-> (index_type = GLOBAL_SECONDARY),
     is_local_secondary |-> (index_type = LOCAL_SECONDARY)]

(***************************************************************************)
(* Results of a call: the returned value, or the exception raised.         *)
(***************************************************************************)
Ok(v) == [err |-> "", val |-> v]
Raise(e) == [err |-> e, val |-> <<>>]

\* dict literals and dict.update
EmptyDict == [k \in {} |-> <<>>]
DictUpdate(d, other) ==
    [k \in (DOMAIN d) \cup (DOMAIN other) |->
        IF k \in DOMAIN other THEN other[k] ELSE d[k]]

\* boto3 conditions: a condition is the list of its AND-ed predicates, each
\* an operator on a named attribute and a string.
Predicate(operator, name, value) ==
    [operator |-> operator, name |-> name, value |-> value]

\* Index.partition_key_value
PartitionKeyValue(self, values) ==
    IF FormatFails(Get(self.partition_key_format), values)
    THEN Raise("KeyError")
    ELSE Ok(self.partition_key_name :> FormatText(Get(self.partition_key_format), values))

\* Index.sort_key_value
SortKeyValue(self, values) ==
    IF self.sort_key_name = None THEN Ok(EmptyDict)
    ELSE IF IsNone(self.sort_key_format) THEN Raise("AttributeError")
    ELSE IF FormatFails(Get(self.sort_key_format), values) THEN Raise("KeyError")
    ELSE Ok(self.sort_key_name :> FormatText(Get(self.sort_key_format), values))

\* Variant of full_key that returns the partition key alone when the sort key
\* cannot be formatted.
FullKeyPartial(self, values) ==
    LET key == PartitionKeyValue(self, values)
        sort == SortKeyValue(self, values)
    IN  IF key.err # "" THEN key
        ELSE IF sort.err # "" THEN key
        ELSE Ok(DictUpdate(key.val, sort.val))

\* Index.full_key
FullKey(self, values) ==
    LET key == PartitionKeyValue(self, values)
        sort == SortKeyValue(self, values)
    IN  IF key.err # "" THEN key
        ELSE IF sort.err # "" THEN sort
        ELSE Ok(DictUpdate(key.val, sort.val))

\* Variant of get_ne_conditional that guards the partition key only.
GetNeConditionalPartitionOnly(self, values) ==
    IF FormatFails(Get(self.partition_key_format), values) THEN Raise("KeyError")
    ELSE Ok(<<Predicate("<>", self.partition_key_name,
                        FormatText(Get(self.partition_key_format), values))>>)

\* Index.get_ne_conditional
GetNeConditional(self, values) ==
    IF FormatFails(Get(self.partition_key_format), values) THEN Raise("KeyError")
    ELSE LET expression ==
                <<Predicate("<>", self.partition_key_name,
                            FormatText(Get(self.partition_key_format), values))>>
         IN  IF self.sort_key_name # None
             THEN IF IsNone(self.sort_key_format) THEN Raise("AttributeError")
                  ELSE IF FormatFails(Get(self.sort_key_format), values)
                       THEN Raise("KeyError")
                  ELSE Ok(expression \o
                          <<Predicate("<>", self.sort_key_name,
                                      FormatText(Get(self.sort_key_format), values))>>)
             ELSE Ok(expression)

\* Variant of LeadingMatches that does not stop at the first missing field.
CountMatches(fields, values) ==
    Len(OrderedIntersection(fields, DOMAIN values))

\* The loop of Index.query_score that counts the leading sort-key fields
\* present in the values, stopping at the first one that is missing.
RECURSIVE LeadingMatches(_, _)
LeadingMatches(fields, values) ==
    IF Len(fields) = 0 THEN 0
    ELSE IF Head(fields) \in DOMAIN values
         THEN 1 + LeadingMatches(Tail(fields), values)
         ELSE 0

\* Variant of PartitionKeyMissing that gates only when no partition-key field
\* at all is matched.
PartitionKeyNoneMatched(self, values) ==
    /\ Len(self.partition_key_format_fields) > 0
    /\ Len(OrderedIntersection(self.partition_key_format_fields, DOMAIN values)) = 0

\* Index.query_score, the hard gate: some partition-key field is missing.
PartitionKeyMissing(self, values) ==
    Len(OrderedIntersection(self.partition_key_format_fields, DOMAIN values))
        < Len(self.partition_key_format_fields)

\* Index.query_score: whether the unique-id field earns a bonus in a template
\* with these fields.
EarnsBonus(fields, values, unique_id_attribute_name) ==
    /\ unique_id_attribute_name # None
    /\ InList(unique_id_attribute_name, fields)
    /\ unique_id_attribute_name \in DOMAIN values

\* Index.query_score: no sort-key field is matched, the score is returned as
\* it stands.
NoSortMatch(self, values) ==
    \/ Len(self.sort_key_format_fields) < 1
    \/ Len(OrderedIntersection(self.sort_key_format_fields, DOMAIN values)) < 1

\* Index.query_score.  The score is kept as the exact fraction num / den and
\* rounded where the code calls round().
QueryScore(self, values, unique_id_attribute_name) ==
    LET pfields == self.partition_key_format_fields
        sfields == self.sort_key_format_fields
        lp == Len(pfields)
        n == Len(sfields)
        pbonus == EarnsBonus(pfields, values, unique_id_attribute_name)
        \* 200 * ((lp - index) / lp), as pnum / pden
        pnum == IF pbonus
                THEN 200 * (lp - ListIndex(pfields, unique_id_attribute_name))
                ELSE 0
        pden == IF pbonus THEN lp ELSE 1
        sbonus == EarnsBonus(sfields, values, unique_id_attribute_name)
        count == LeadingMatches(sfields, values)
        \* (score + count) / n * 100, as snum / (pden * n)
        snum == (pnum + count * pden) * 100
        \* 100 * ((n - index) / n), as bnum / (pden * n)
        bnum == IF sbonus
                THEN 100 * (n - ListIndex(sfields, unique_id_attribute_name)) * pden
                ELSE 0
    IN  IF PartitionKeyMissing(self, values) THEN 0
        ELSE IF NoSortMatch(self, values) THEN PyRound(pnum, pden)
        ELSE PyRound(snum + bnum, pden * n)

\* Variant of BestMatch that stops before the literal of the first missing
\* placeholder instead of after it.
RECURSIVE BestMatchDropsLiteral(_, _)
BestMatchDropsLiteral(segments, values) ==
    IF Len(segments) = 0 THEN <<>>
    ELSE LET segment == Head(segments)
         IN  IF segment.field \in DOMAIN values
             THEN segment.lit \o PyStr(values[segment.field])
                  \o BestMatchDropsLiteral(Tail(segments), values)
             ELSE <<>>

\* Variant of BestMatch that goes on past a missing placeholder, leaving its
\* value out.
RECURSIVE BestMatchSkipsMissing(_, _)
BestMatchSkipsMissing(segments, values) ==
    IF Len(segments) = 0 THEN <<>>
    ELSE LET segment == Head(segments)
         IN  IF segment.field \in DOMAIN values
             THEN segment.lit \o PyStr(values[segment.field])
                  \o BestMatchSkipsMissing(Tail(segments), values)
             ELSE segment.lit \o BestMatchSkipsMissing(Tail(segments), values)

\* The loop of Index.get_sort_best_match over the parsed segments.
RECURSIVE BestMatch(_, _)
BestMatch(segments, values) ==
    IF Len(segments) = 0 THEN <<>>
    ELSE LET segment == Head(segments)
         IN  IF segment.field \in DOMAIN values
             THEN segment.lit \o PyStr(values[segment.field])
                  \o BestMatch(Tail(segments), values)
             ELSE segment.lit

\* Index.get_sort_best_match
GetSortBestMatch(self, values) ==
    IF IsNone(self.sort_key_format) THEN Raise("TypeError")
    ELSE Ok(BestMatch(Get(self.sort_key_format), values))

\* str.rstrip(chars): chars None strips whitespace.
Whitespace == {" ", "\t", "\n", "\r", "\f"}

RECURSIVE RStripSet(_, _)
RStripSet(s, chars) ==
    IF Len(s) > 0 /\ s[Len(s)] \in chars
    THEN RStripSet(SubSeq(s, 1, Len(s) - 1), chars)
    ELSE s

RStrip(s, chars) ==
    IF IsNone(chars) THEN RStripSet(s, Whitespace)
    ELSE RStripSet(s, {Get(chars)[i] : i \in 1..Len(Get(chars))})

\* Variant of SortKeyEquality that takes every score of 100 or more as a full
\* match.
SortKeyEqualityAtLeast(key_score, force_key_begins_with) ==
    key_score >= 100 /\ ~force_key_begins_with

\* Index.get_condition_expression: the sort key is matched by equality.
SortKeyEquality(key_score, force_key_begins_with) ==
    key_score = 100 /\ ~force_key_begins_with

\* Index.get_condition_expression
GetConditionExpression(self, values, key_score, force_key_begins_with) ==
    IF FormatFails(Get(self.partition_key_format), values) THEN Raise("KeyError")
    ELSE LET key ==
                <<Predicate("=", self.partition_key_name,
                            FormatText(Get(self.partition_key_format), values))>>
             sort_best_match == GetSortBestMatch(self, values).val
         IN  IF IsNone(self.sort_key_format) THEN Ok(key)
             ELSE IF SortKeyEquality(key_score, force_key_begins_with)
             THEN IF FormatFails(Get(self.sort_key_format), values)
                  THEN Raise("KeyError")
                  ELSE Ok(key \o
                          <<Predicate("=", self.sort_key_name,
                                      FormatText(Get(self.sort_key_format), values))>>)
             ELSE Ok(key \o
                     <<Predicate("begins_with", self.sort_key_name,
                                 IF force_key_begins_with
                                 THEN RStrip(sort_best_match, self.composite_separator)
                                 ELSE sort_best_match)>>)

(***************************************************************************)
(* CompositorTable.                                                        *)
(***************************************************************************)
\* CompositorTable.__init__
CompositorTable(primary_index, secondary_indexes, unique_id_attribute_name) ==
    [primary_index |-> primary_index,
     secondary_indexes |-> secondary_indexes,
     unique_id_attribute_name |-> unique_id_attribute_name,
     stringify_attributes |-> <<>>,
     latest_version_attribute |-> None,
     versioning_attribute |-> None,
     versioning_enabled |-> FALSE]

\* CompositorTable.__init__ with latest_version_attribute and
\* versioning_attribute given.
WithVersioning(self, latest_version_attribute, versioning_attribute) ==
    [self EXCEPT !.latest_version_attribute = latest_version_attribute,
                 !.versioning_attribute = versioning_attribute,
                 !.versioning_enabled = (latest_version_attribute # None)]

\* max(list) of a non-empty list of scores
ListMax(list) ==
    CHOOSE m \in {list[i] : i \in 1..Len(list)} :
        \A i \in 1..Len(list) : list[i] <= m

\* The scores get_query_key_condition_expression computes before it selects.
PrimaryIndexScore(self, values) ==
    QueryScore(self.primary_index, values, self.unique_id_attribute_name)

SecondaryIndexScores(self, values) ==
    [i \in 1..Len(self.secondary_indexes) |->
        QueryScore(self.secondary_indexes[i], values, self.unique_id_attribute_name)]

\* Variant of SelectedIndex in which the primary index must score strictly
\* higher than every secondary index, so that it loses ties.
SelectedIndexStrict(self, values) ==
    LET primary_index_score == PrimaryIndexScore(self, values)
        secondary_index_scores == SecondaryIndexScores(self, values)
    IN  IF \A i \in 1..Len(secondary_index_scores) :
               primary_index_score > secondary_index_scores[i]
        THEN 0
        ELSE ListIndex(secondary_index_scores, ListMax(secondary_index_scores)) + 1

\* The branch get_query_key_condition_expression takes: 0 for the primary
\* index, else the 1-based position of the secondary index it uses.
SelectedIndex(self, values) ==
    LET primary_index_score == PrimaryIndexScore(self, values)
        secondary_index_scores == SecondaryIndexScores(self, values)
    IN  IF \A i \in 1..Len(secondary_index_scores) :
               primary_index_score >= secondary_index_scores[i]
        THEN 0
        ELSE ListIndex(secondary_index_scores, ListMax(secondary_index_scores)) + 1

\* CompositorTable.get_query_key_condition_expression: the query_args dict,
\* IndexName being None when the dict has no such key.
GetQueryKeyConditionExpression(self, values, force_key_begins_with) ==
    LET selected == SelectedIndex(self, values)
        secondary_index == self.secondary_indexes[selected]
        expression ==
            IF selected = 0
            THEN GetConditionExpression(self.primary_index, values,
                     PrimaryIndexScore(self, values), force_key_begins_with)
            ELSE GetConditionExpression(secondary_index, values,
                     ListMax(SecondaryIndexScores(self, values)), force_key_begins_with)
    IN  IF expression.err # "" THEN expression
        ELSE Ok([IndexName |-> IF selected = 0 THEN None ELSE secondary_index.name,
                 KeyConditionExpression |-> expression.val])

\* Variant of SplitFirst that cuts at the last occurrence of sep, as
\* str.rsplit(sep, 1)[0] does.
SplitLast(s, sep) ==
    LET occurrences == {i \in 1..(Len(s) - Len(sep) + 1) :
                            SubSeq(s, i, i + Len(sep) - 1) = sep}
    IN  IF occurrences = {} THEN s
        ELSE SubSeq(s, 1, (CHOOSE i \in occurrences :
                              \A j \in occurrences : i >= j) - 1)

\* str.split(sep)[0]: the text before the first occurrence of sep.
SplitFirst(s, sep) ==
    LET occurrences == {i \in 1..(Len(s) - Len(sep) + 1) :
                            SubSeq(s, i, i + Len(sep) - 1) = sep}
    IN  IF occurrences = {} THEN s
        ELSE SubSeq(s, 1, (CHOOSE i \in occurrences :
                              \A j \in occurrences : i <= j) - 1)

\* The loop of CompositorTable.reverse_format_string from segment idx on.
RECURSIVE ReverseWalk(_, _, _, _)
ReverseWalk(actual_string, fields, idx, found) ==
    IF idx > Len(fields) THEN Ok(found)
    ELSE LET rest == DropFirst(actual_string, Len(fields[idx].lit))
             name == fields[idx].field
         IN  IF name = None THEN ReverseWalk(rest, fields, idx + 1, found)
             ELSE IF idx < Len(fields)
             THEN IF Len(fields[idx + 1].lit) = 0 THEN Raise("ValueError")
                  ELSE LET value == SplitFirst(rest, fields[idx + 1].lit)
                       IN  ReverseWalk(DropFirst(rest, Len(value)), fields, idx + 1,
                                       DictUpdate(found, name :> StrVal(value)))
             ELSE ReverseWalk(rest, fields, idx + 1,
                              DictUpdate(found, name :> StrVal(rest)))

\* CompositorTable.reverse_format_string
ReverseFormatString(actual_string, format_string) ==
    IF IsNone(format_string) THEN Raise("TypeError")
    ELSE ReverseWalk(actual_string, Get(format_string), 1, EmptyDict)

\* The part of field_values_from_item_keys that reads one secondary index.
SecondaryFieldValues(secondary, item) ==
    IF secondary.partition_key_name \notin DOMAIN item THEN Raise("KeyError")
    ELSE LET part == ReverseFormatString(item[secondary.partition_key_name],
                                         secondary.partition_key_format)
         IN  IF part.err # "" THEN part
             ELSE IF secondary.partition_key_name = None THEN part
             ELSE IF secondary.sort_key_name \notin DOMAIN item THEN Raise("KeyError")
             ELSE LET sort == ReverseFormatString(item[secondary.sort_key_name],
                                                  secondary.sort_key_format)
                  IN  IF sort.err # "" THEN sort
                      ELSE Ok(DictUpdate(part.val, sort.val))

RECURSIVE SecondariesFieldValues(_, _, _, _)
SecondariesFieldValues(secondary_indexes, i, item, found) ==
    IF i > Len(secondary_indexes) THEN Ok(found)
    ELSE LET one == SecondaryFieldValues(secondary_indexes[i], item)
         IN  IF one.err # "" THEN one
             ELSE SecondariesFieldValues(secondary_indexes, i + 1, item,
                                         DictUpdate(found, one.val))

\* CompositorTable.field_values_from_item_keys
FieldValuesFromItemKeys(self, item) ==
    LET primary == self.primary_index
    IN  IF primary.partition_key_name \notin DOMAIN item THEN Raise("KeyError")
        ELSE LET part == ReverseFormatString(item[primary.partition_key_name],
                                             primary.partition_key_format)
                 sort == IF primary.sort_key_name = None THEN Ok(EmptyDict)
                         ELSE IF primary.sort_key_name \notin DOMAIN item
                              THEN Raise("KeyError")
                         ELSE ReverseFormatString(item[primary.sort_key_name],
                                                  primary.sort_key_format)
             IN  IF part.err # "" THEN part
                 ELSE IF sort.err # "" THEN sort
                 ELSE SecondariesFieldValues(self.secondary_indexes, 1, item,
                                             DictUpdate(part.val, sort.val))

(***************************************************************************)
(* The write path of CompositorTable.  The store (self.dynamo_table) is a  *)
(* set of items, at most one per primary key; an item is a dict from       *)
(* attribute names to values.                                              *)
(***************************************************************************)
\* CompositorTable.__null_if_empty
NullIfEmpty(value) ==
    IF value.type = "str" /\ Len(value.s) < 1 THEN NoneVal ELSE value

RECURSIVE LStripSet(_, _)
LStripSet(s, chars) ==
    IF Len(s) > 0 /\ Head(s) \in chars THEN LStripSet(Tail(s), chars) ELSE s

\* str.strip()
Strip(s) == LStripSet(RStripSet(s, Whitespace), Whitespace)

\* CompositorTable.params_cleanup: with null_if_empty every string is stored
\* back stripped, and None when that leaves it empty; without it the stripped
\* value is dropped and the dict is left as it was.
ParamsCleanup(params, null_if_empty) ==
    [key \in DOMAIN params |->
        IF null_if_empty
        THEN NullIfEmpty(IF params[key].type = "str"
                         THEN StrVal(Strip(params[key].s)) ELSE params[key])
        ELSE params[key]]

\* CompositorTable.stringify: json.dumps of the listed attributes that are
\* neither None nor a str.
Stringify(self, values) ==
    [key \in DOMAIN values |->
        IF InList(key, self.stringify_attributes) /\ values[key].type = "int"
        THEN StrVal(StrOfInt(values[key].n))
        ELSE values[key]]

\* The text of a decimal integer, as json.loads and int() read one.
IsDecimal(s) ==
    /\ Len(s) > 0
    /\ \A i \in 1..Len(s) : InList(s[i], Digit)
    /\ Len(s) > 1 => s[1] # "0"

RECURSIVE IntOfStr(_)
IntOfStr(s) ==
    IF Len(s) = 0 THEN 0
    ELSE 10 * IntOfStr(SubSeq(s, 1, Len(s) - 1)) + ListIndex(Digit, s[Len(s)])

\* CompositorTable.destringify: json.loads of the listed attributes that are
\* neither None nor "".
Destringify(self, values) ==
    LET listed == {key \in DOMAIN values :
                      /\ InList(key, self.stringify_attributes)
                      /\ values[key].type # "none"
                      /\ values[key] # StrVal(<<>>)}
    IN  IF \E key \in listed : values[key].type = "int" THEN Raise("TypeError")
        ELSE IF \E key \in listed : ~IsDecimal(values[key].s)
        THEN Raise("JSONDecodeError")
        ELSE Ok([key \in DOMAIN values |->
                    IF key \in listed THEN IntVal(IntOfStr(values[key].s))
                    ELSE values[key]])

\* The key attributes full_key returned, as attributes of an item.
KeyAttributes(key) == [name \in DOMAIN key |-> StrVal(key[name])]

\* The str attributes of an item, as the texts reverse_format_string slices.
ItemTexts(item) == [name \in DOMAIN item |-> PyStr(item[name])]

\* item.update(index.full_key(values)) for the primary index and then for
\* every secondary index.
RECURSIVE UpdateSecondaryKeys(_, _, _, _)
UpdateSecondaryKeys(secondary_indexes, i, values, item) ==
    IF i > Len(secondary_indexes) THEN Ok(item)
    ELSE LET key == FullKey(secondary_indexes[i], values)
         IN  IF key.err # "" THEN key
             ELSE UpdateSecondaryKeys(secondary_indexes, i + 1, values,
                                      DictUpdate(item, KeyAttributes(key.val)))

UpdateKeys(self, values, item) ==
    LET key == FullKey(self.primary_index, values)
    IN  IF key.err # "" THEN key
        ELSE UpdateSecondaryKeys(self.secondary_indexes, 1, values,
                                 DictUpdate(item, KeyAttributes(key.val)))

\* item.update(index.full_key(item)) for the primary index and then for
\* every secondary index, each key formatted from the item as updated so far.
RECURSIVE UpdateOwnSecondaryKeys(_, _, _)
UpdateOwnSecondaryKeys(secondary_indexes, i, item) ==
    IF i > Len(secondary_indexes) THEN Ok(item)
    ELSE LET key == FullKey(secondary_indexes[i], item)
         IN  IF key.err # "" THEN key
             ELSE UpdateOwnSecondaryKeys(secondary_indexes, i + 1,
                                         DictUpdate(item, KeyAttributes(key.val)))

UpdateOwnKeys(self, item) ==
    LET key == FullKey(self.primary_index, item)
    IN  IF key.err # "" THEN key
        ELSE UpdateOwnSecondaryKeys(self.secondary_indexes, 1,
                                    DictUpdate(item, KeyAttributes(key.val)))

\* dict[key] = value
DictSet(d, key, value) == DictUpdate(d, [k \in {key} |-> value])

\* Variant of PutItemItems that lists the record at version 0 first.
PutItemItemsShadowFirst(self, values) ==
    LET first == UpdateKeys(self, values, values)
        second == UpdateOwnKeys(self, DictSet(values, self.versioning_attribute, IntVal(0)))
    IN  IF first.err # "" THEN first
        ELSE IF ~self.versioning_enabled THEN Ok(<<first.val>>)
        ELSE IF second.err # "" THEN second
        ELSE Ok(<<DictSet(second.val, self.latest_version_attribute,
                          second.val[self.versioning_attribute]),
                  first.val>>)

\* put_item, the items it writes: the record of values with its keys and,
\* with versioning, the record at version 0 that carries in
\* latest_version_attribute the value of its own versioning attribute.
PutItemItems(self, values) ==
    LET first == UpdateKeys(self, values, values)
        second == UpdateOwnKeys(self, DictSet(values, self.versioning_attribute, IntVal(0)))
    IN  IF first.err # "" THEN first
        ELSE IF ~self.versioning_enabled THEN Ok(<<first.val>>)
        ELSE IF second.err # "" THEN second
        ELSE Ok(<<first.val,
                  DictSet(second.val, self.latest_version_attribute,
                          second.val[self.versioning_attribute])>>)

\* The primary-key attributes of an item or of a Key argument.
PrimaryKeyNames(self) ==
    {self.primary_index.partition_key_name}
    \cup (IF self.primary_index.sort_key_name # None
          THEN {self.primary_index.sort_key_name} ELSE {})

PrimaryKeyOf(self, item) == [name \in PrimaryKeyNames(self) |-> item[name]]

\* The stored item with the primary key of the given item or Key, if any.
StoredAt(store, self, key) ==
    {item \in store : PrimaryKeyOf(self, item) = PrimaryKeyOf(self, key)}

\* dynamo_table.get_item(Key=...): the "Item" of the response, None when no
\* item has that key.
GetItem(store, self, key) ==
    IF StoredAt(store, self, key) = {} THEN Null
    ELSE Some(CHOOSE item \in StoredAt(store, self, key) : TRUE)

\* How the store evaluates a ConditionExpression against the item that
\* already has the key of the item being put: name <> value holds when there
\* is no such item, when it lacks the attribute, or when the values differ.
ConditionHolds(condition, existing) ==
    \A i \in 1..Len(condition) :
        \/ condition[i].operator # "<>"
        \/ IsNone(existing)
        \/ condition[i].name \notin DOMAIN Get(existing)
        \/ Get(existing)[condition[i].name] # StrVal(condition[i].value)

\* Variant of StoreAfterPut in which an item already stored is kept.
StoreAfterPutKeepsFirst(store, self, item) ==
    IF StoredAt(store, self, item) = {} THEN store \cup {item} ELSE store

\* The store after dynamo_table.put_item(Item=item): the item replaces the
\* one with its primary key.
StoreAfterPut(store, self, item) == (store \ StoredAt(store, self, item)) \cup {item}

\* int(x)
PyInt(value) ==
    IF value.type = "int" THEN Ok(value.n)
    ELSE IF value.type = "str" /\ IsDecimal(value.s) THEN Ok(IntOfStr(value.s))
    ELSE IF value.type = "str" THEN Raise("ValueError")
    ELSE Raise("TypeError")

\* get_next_version, the Key it reads: the primary key of the values at
\* version 0.
GetNextVersionKey(self, values) ==
    LET key == FullKey(self.primary_index,
                       DictSet(values, self.versioning_attribute, IntVal(0)))
    IN  IF key.err # "" THEN key ELSE Ok(KeyAttributes(key.val))

\* get_next_version, the version it returns for the response of get_item:
\* int(results.get("Item", {}).get(latest_version_attribute, 0)) + 1.
GetNextVersion(self, results) ==
    IF IsNone(results) \/ self.latest_version_attribute \notin DOMAIN Get(results)
    THEN Ok(1)
    ELSE LET latest == PyInt(Get(results)[self.latest_version_attribute])
         IN  IF latest.err # "" THEN latest ELSE Ok(latest.val + 1)

\* Index.field_values_intersection
FieldValuesIntersection(self, values) ==
    LET fields == self.partition_key_format_fields \o self.sort_key_format_fields
    IN  [f \in {fields[i] : i \in 1..Len(fields)} \cap DOMAIN values |-> values[f]]

\* put_item, the responses it returns.
Created(body) == [HTTPStatusCode |-> 201, body |-> body]
\* Variant of Duplicate that reports the rejected put as a server error.
DuplicateAsServerError(self, values) ==
    [HTTPStatusCode |-> 500,
     body |-> [code |-> 500,
               message |-> "Duplicate entry found!",
               fields |-> FieldValuesIntersection(self.primary_index, values)]]

Duplicate(self, values) ==
    [HTTPStatusCode |-> 409,
     body |-> [code |-> 409,
               message |-> "Duplicate entry found!",
               fields |-> FieldValuesIntersection(self.primary_index, values)]]

\* none_found_response
NoneFound == [HTTPStatusCode |-> 404, body |-> [code |-> 404, message |-> "No item found..."]]

\* The characters of the model in the order of their code points, by which
\* the store orders the sort keys of a query's items.
CharOrder ==
    <<"\t", "\n", "\f", "\r", " ", "#", "0", "1", "2", "3", "4", "5", "6", "7", "8", "9",
      ":", "N", "a", "d", "e", "f", "i", "n", "o", "p", "t", "v", "x", "y">>

RECURSIVE TextLess(_, _)
TextLess(s, t) ==
    IF Len(t) = 0 THEN FALSE
    ELSE IF Len(s) = 0 THEN TRUE
    ELSE IF Head(s) # Head(t)
    THEN ListIndex(CharOrder, Head(s)) < ListIndex(CharOrder, Head(t))
    ELSE TextLess(Tail(s), Tail(t))

\* How the store evaluates a KeyConditionExpression on an item.
KeyConditionHolds(condition, item) ==
    \A i \in 1..Len(condition) :
        /\ condition[i].name \in DOMAIN item
        /\ item[condition[i].name].type = "str"
        /\ IF condition[i].operator = "="
           THEN item[condition[i].name].s = condition[i].value
           ELSE StartsWith(item[condition[i].name].s, condition[i].value)

\* The sort-key attribute of the index a query names (the primary index when
\* it names none).
QueriedSortKeyName(self, index_name) ==
    IF index_name = None THEN self.primary_index.sort_key_name
    ELSE LET i == CHOOSE i \in 1..Len(self.secondary_indexes) :
                      self.secondary_indexes[i].name = index_name
         IN  self.secondary_indexes[i].sort_key_name

\* The items of a set in ascending order of a sort-key attribute.
RECURSIVE ItemsInOrder(_, _)
ItemsInOrder(items, sort_key_name) ==
    IF items = {} THEN <<>>
    ELSE LET first == CHOOSE item \in items :
                          \A other \in items :
                              \/ sort_key_name = None
                              \/ ~TextLess(other[sort_key_name].s, item[sort_key_name].s)
         IN  <<first>> \o ItemsInOrder(items \ {first}, sort_key_name)

\* dynamo_table.query(**query_args): the "Items" of the response.
Query(store, self, query_args) ==
    ItemsInOrder({item \in store :
                     KeyConditionHolds(query_args.KeyConditionExpression, item)},
                 QueriedSortKeyName(self, query_args.IndexName))

\* Variant of GetItemsValues that sets the versioning attribute to 0 whether
\* or not the caller gave one.
GetItemsValuesAlwaysLatest(self, values, null_if_empty) ==
    LET cleaned == ParamsCleanup(values, null_if_empty)
    IN  IF self.versioning_enabled
        THEN DictSet(cleaned, self.versioning_attribute, IntVal(0))
        ELSE cleaned

\* get_items, the query_args it sends: the values are cleaned, the versioning
\* attribute defaults to 0 on a table with versioning, and the index and
\* condition are those of get_query_key_condition_expression.
GetItemsValues(self, values, null_if_empty) ==
    LET cleaned == ParamsCleanup(values, null_if_empty)
    IN  IF self.versioning_enabled /\ self.versioning_attribute \notin DOMAIN cleaned
        THEN DictSet(cleaned, self.versioning_attribute, IntVal(0))
        ELSE cleaned

GetItemsQueryArgs(self, values, force_key_begins_with, null_if_empty) ==
    GetQueryKeyConditionExpression(self, GetItemsValues(self, values, null_if_empty),
                                   force_key_begins_with)

\* CompositorTable.get_all_key_field_names
GetAllKeyFieldNames(self) ==
    PrimaryKeyNames(self)
    \cup UNION {{self.secondary_indexes[i].partition_key_name,
                 self.secondary_indexes[i].sort_key_name} \ {None} :
                i \in 1..Len(self.secondary_indexes)}

\* The attributes of an item a ProjectionExpression over return_fields keeps.
Project(item, return_fields) == [name \in (DOMAIN item) \cap return_fields |-> item[name]]

\* update_item, the values it looks the latest item up with.
UpdateItemValues(self, values) == ParamsCleanup(Stringify(self, values), TRUE)

UpdateItemLatestValues(self, values, force_overwrite) ==
    IF self.versioning_enabled /\ ~force_overwrite
    THEN DictSet(UpdateItemValues(self, values), self.versioning_attribute, IntVal(0))
    ELSE UpdateItemValues(self, values)

UpdateItemReturnFields(self, force_overwrite) ==
    GetAllKeyFieldNames(self)
    \cup (IF self.versioning_enabled /\ ~force_overwrite
          THEN {self.latest_version_attribute} ELSE {})

\* update_item after its query returned latest_item: the values it hands to
\* put_item (err "" and val [field_values, latest_version]), or the exception.
UpdateItemPutArguments(self, values, force_overwrite, latest_item) ==
    LET from_keys == FieldValuesFromItemKeys(self, ItemTexts(latest_item))
        merged == DictUpdate(UpdateItemValues(self, values), from_keys.val)
    IN  IF from_keys.err # "" THEN from_keys
        ELSE IF ~(self.versioning_enabled /\ ~force_overwrite)
        THEN Ok([field_values |-> merged, latest_version |-> Null])
        ELSE IF self.latest_version_attribute \notin DOMAIN latest_item
        THEN Raise("KeyError")
        ELSE Ok([field_values |-> merged,
                 latest_version |-> Some(latest_item[self.latest_version_attribute])])

\* is_latest, the field_values it scores the indexes with: the versioning
\* attribute at 0 and the partition-key attributes of the item, each under
\* the name of the key attribute.
RECURSIVE IsLatestFieldValues(_, _, _, _)
IsLatestFieldValues(secondary_indexes, i, item, found) ==
    IF i > Len(secondary_indexes) THEN Ok(found)
    ELSE IF secondary_indexes[i].partition_key_name \notin DOMAIN item
    THEN Raise("KeyError")
    ELSE IsLatestFieldValues(secondary_indexes, i + 1, item,
             DictSet(found, secondary_indexes[i].partition_key_name,
                     item[secondary_indexes[i].partition_key_name]))

\* CompositorTable.is_latest
IsLatest(self, item) ==
    IF ~self.versioning_enabled THEN Ok(FALSE)
    ELSE IF self.primary_index.partition_key_name \notin DOMAIN item THEN Raise("KeyError")
    ELSE
    LET values == IsLatestFieldValues(self.secondary_indexes, 1, item,
                      DictSet(DictSet(EmptyDict, self.versioning_attribute, IntVal(0)),
                              self.primary_index.partition_key_name,
                              item[self.primary_index.partition_key_name]))
        primary_index_score == QueryScore(self.primary_index, values.val, None)
        secondary_index_scores ==
            [i \in 1..Len(self.secondary_indexes) |->
                QueryScore(self.secondary_indexes[i], values.val, None)]
        chosen ==
            IF \A i \in 1..Len(secondary_index_scores) :
                   primary_index_score >= secondary_index_scores[i]
            THEN self.primary_index
            ELSE self.secondary_indexes[
                     ListIndex(secondary_index_scores, ListMax(secondary_index_scores)) + 1]
        sort_best_match == GetSortBestMatch(chosen, values.val)
    IN  IF values.err # "" THEN values
        ELSE IF sort_best_match.err # "" THEN sort_best_match
        ELSE IF chosen.sort_key_name \notin DOMAIN item THEN Raise("KeyError")
        ELSE IF item[chosen.sort_key_name].type # "str" THEN Raise("AttributeError")
        ELSE Ok(StartsWith(item[chosen.sort_key_name].s, sort_best_match.val))

(***************************************************************************)
(* The indexes, tables and value maps the calls are made on.               *)
(***************************************************************************)
Fields == {"t", "a", "b", "c"}
SortFields == {"a", "b", "c"}
UniqueIdNames == Fields \cup {None}
Separator == Some(<<":">>)

\* The values a field may carry: strings with and without the separator
\* character, and for field a also integers (a version number).
FieldChoices(f) ==
    IF f = "t" THEN {StrVal(<<"x">>)}
    ELSE IF f = "a"
         THEN {StrVal(<<"x">>), StrVal(<<"y", ":">>)} \cup {IntVal(n) : n \in 0..MaxInt}
    ELSE {StrVal(<<"x">>), StrVal(<<"y", ":">>)}

ValueMaps ==
    UNION {{m \in [present -> UNION {FieldChoices(f) : f \in present}] :
                \A f \in present : m[f] \in FieldChoices(f)} :
           present \in SUBSET Fields}

\* Partition-key format strings: "{t}", "p:{t}:{a}" and "p".
PartitionFormats ==
    {<<Segment(<<>>, "t")>>,
     <<Segment(<<"p", ":">>, "t"), Segment(<<":">>, "a")>>,
     <<Segment(<<"p">>, None)>>}

\* The orders in which sort-key fields appear in a format string.
FieldOrders ==
    {fs \in UNION {[1..k -> SortFields] : k \in 1..Cardinality(SortFields)} :
        \A i, j \in DOMAIN fs : i # j => fs[i] # fs[j]}
    \cup {<<"a", "a">>}

\* Sort-key format strings over a field order, such as "i:v{a}:{b}",
\* "{a}:{b}#" and "i:{a}{b}".
SortFormatOf(style, fs) ==
    LET lit(i) ==
            IF style = "prefixed" THEN (IF i = 1 THEN <<"i", ":", "v">> ELSE <<":">>)
            ELSE IF style = "trailing" THEN (IF i = 1 THEN <<>> ELSE <<":">>)
            ELSE (IF i = 1 THEN <<"i", ":">> ELSE <<>>)
        body == [i \in 1..Len(fs) |-> Segment(lit(i), fs[i])]
    IN  IF style = "trailing" THEN body \o <<Segment(<<"#">>, None)>> ELSE body

SortFormats ==
    {SortFormatOf(style, fs) : style \in {"prefixed", "trailing", "adjacent"},
                               fs \in FieldOrders}

\* The indexes of the engine specification: every partition format with no
\* sort key or with any sort format, the separator given as the constructor
\* requires it.
SeparatorFor(partition_format, sort_format) ==
    IF CompositeSeparatorRaises(FormatStringFieldList(Some(partition_format)),
                                FormatStringFieldList(sort_format), Separator)
    THEN Null ELSE Separator

Indexes ==
    {Index("pk", Some(pf), None, Null, PRIMARY, None, SeparatorFor(pf, Null)) :
        pf \in PartitionFormats}
    \cup
    {Index("pk", Some(pf), "sk", Some(sf), PRIMARY, None, SeparatorFor(pf, Some(sf))) :
        pf \in PartitionFormats, sf \in SortFormats}

\* The key_score arguments get_condition_expression is called with.
KeyScores == {0, 100, 150}

NoCall == [op |-> "idle", unique_id |-> None, key_score |-> 0, force |-> FALSE]
Call(op) == [NoCall EXCEPT !.op = op]
NoResult == Ok(<<>>)
NoTable == <<>>
NoIndex == <<>>

(***************************************************************************)
(* The engine specification: the methods of one Index, called one after   *)
(* another on a value map.                                                 *)
(***************************************************************************)
Init ==
    /\ index \in Indexes
    /\ table = NoTable
    /\ field_values \in ValueMaps
    /\ call = NoCall
    /\ result = NoResult
    /\ dynamo_table = {}
    /\ writers = <<>>
    /\ requests = <<>>

QueryScoreCall ==
    /\ call.op = "idle"
    /\ \E unique_id \in UniqueIdNames :
        /\ call' = [Call("query_score") EXCEPT !.unique_id = unique_id]
        /\ result' = Ok(QueryScore(index, field_values, unique_id))
    /\ UNCHANGED <<index, table, field_values, dynamo_table, writers, requests>>

GetSortBestMatchCall ==
    /\ call.op = "idle"
    /\ call' = Call("get_sort_best_match")
    /\ result' = GetSortBestMatch(index, field_values)
    /\ UNCHANGED <<index, table, field_values, dynamo_table, writers, requests>>

GetConditionExpressionCall ==
    /\ call.op = "idle"
    /\ \E key_score \in KeyScores, force \in BOOLEAN :
        /\ call' = [Call("get_condition_expression") EXCEPT
                        !.key_score = key_score, !.force = force]
        /\ result' = GetConditionExpression(index, field_values, key_score, force)
    /\ UNCHANGED <<index, table, field_values, dynamo_table, writers, requests>>

FullKeyCall ==
    /\ call.op = "idle"
    /\ call' = Call("full_key")
    /\ result' = FullKey(index, field_values)
    /\ UNCHANGED <<index, table, field_values, dynamo_table, writers, requests>>

GetNeConditionalCall ==
    /\ call.op = "idle"
    /\ call' = Call("get_ne_conditional")
    /\ result' = GetNeConditional(index, field_values)
    /\ UNCHANGED <<index, table, field_values, dynamo_table, writers, requests>>

\* The keys full_key returned are read back, as update_item reads the keys of
\* a stored item.
FieldValuesFromItemKeysCall ==
    /\ call.op = "full_key"
    /\ result.err = ""
    /\ call' = Call("field_values_from_item_keys")
    /\ result' = FieldValuesFromItemKeys(CompositorTable(index, <<>>, None), result.val)
    /\ UNCHANGED <<index, table, field_values, dynamo_table, writers, requests>>

Return ==
    /\ call.op # "idle"
    /\ call' = NoCall
    /\ result' = NoResult
    /\ UNCHANGED <<index, table, field_values, dynamo_table, writers, requests>>

Next ==
    \/ QueryScoreCall
    \/ GetSortBestMatchCall
    \/ GetConditionExpressionCall
    \/ FullKeyCall
    \/ GetNeConditionalCall
    \/ FieldValuesFromItemKeysCall
    \/ Return

Spec == Init /\ [][Next]_vars

(***************************************************************************)
(* The table specification: get_query_key_condition_expression on a table  *)
(* with a primary index and up to MaxSecondary secondary indexes.          *)
(***************************************************************************)
\* Primary indexes: "{t}" with "i:v{a}:{b}:{c}", "{t}" alone, and
\* "p:{t}:{a}" with "{b}:{c}#".
PrimaryIndexes ==
    {Index("pk", Some(<<Segment(<<>>, "t")>>), "sk",
           Some(SortFormatOf("prefixed", <<"a", "b", "c">>)), PRIMARY, None, Separator),
     Index("pk", Some(<<Segment(<<>>, "t")>>), None, Null, PRIMARY, None, Separator),
     Index("pk", Some(<<Segment(<<"p", ":">>, "t"), Segment(<<":">>, "a")>>), "sk",
           Some(SortFormatOf("trailing", <<"b", "c">>)), PRIMARY, None, Separator)}

\* Secondary indexes: global G1 "{t}" with "i:v{c}:{a}", local L1 "{t}" with
\* "i:v{a}:{c}", global G2 "{c}" alone, local L2 "{t}" with "i:v{b}:{a}".
SecondaryIndexPool ==
    {Index("gpk", Some(<<Segment(<<>>, "t")>>), "gsk",
           Some(SortFormatOf("prefixed", <<"c", "a">>)), GLOBAL_SECONDARY, "G1", Separator),
     Index("pk", Some(<<Segment(<<>>, "t")>>), "lsk",
           Some(SortFormatOf("prefixed", <<"a", "c">>)), LOCAL_SECONDARY, "L1", Separator),
     Index("gpk2", Some(<<Segment(<<>>, "c")>>), None, Null, GLOBAL_SECONDARY, "G2", Separator),
     Index("pk", Some(<<Segment(<<>>, "t")>>), "lsk2",
           Some(SortFormatOf("prefixed", <<"b", "a">>)), LOCAL_SECONDARY, "L2", Separator)}

SecondaryIndexLists ==
    UNION {[1..k -> SecondaryIndexPool] : k \in 0..MaxSecondary}

Tables ==
    {CompositorTable(primary, secondaries, unique_id) :
        primary \in PrimaryIndexes,
        secondaries \in SecondaryIndexLists,
        unique_id \in UniqueIdNames}

InitTable ==
    /\ index = NoIndex
    /\ table \in Tables
    /\ field_values \in ValueMaps
    /\ call = NoCall
    /\ result = NoResult
    /\ dynamo_table = {}
    /\ writers = <<>>
    /\ requests = <<>>

GetQueryKeyConditionExpressionCall ==
    /\ call.op = "idle"
    /\ \E force \in BOOLEAN :
        /\ call' = [Call("get_query_key_condition_expression") EXCEPT !.force = force]
        /\ result' = GetQueryKeyConditionExpression(table, field_values, force)
    /\ UNCHANGED <<index, table, field_values, dynamo_table, writers, requests>>

NextTable ==
    \/ GetQueryKeyConditionExpressionCall
    \/ Return

SpecTable == InitTable /\ [][NextTable]_vars

(***************************************************************************)
(* The store specification: put_item and update_item called by up to       *)
(* MaxWriters callers on one logical item of a table, each call a sequence *)
(* of requests to the store, and is_latest called on the stored items.     *)
(***************************************************************************)
Writers == 1..MaxWriters

\* Tables over the fields t, a and version: V1 with sort key
\* "i:v{version}:{a}", V2 with sort key "i:{a}:v{version}", V3 which is V1
\* with unique id a and a global secondary index on "i:{a}:v{version}", and N1
\* without versioning and with sort key "i:{a}".
VersionFirst == <<Segment(<<"i", ":", "v">>, "version"), Segment(<<":">>, "a")>>
VersionLast == <<Segment(<<"i", ":">>, "a"), Segment(<<":", "v">>, "version")>>

StoreTables ==
    {WithVersioning(CompositorTable(
         Index("pk", Some(<<Segment(<<>>, "t")>>), "sk", Some(VersionFirst),
               PRIMARY, None, Separator), <<>>, None), "latest", "version"),
     WithVersioning(CompositorTable(
         Index("pk", Some(<<Segment(<<>>, "t")>>), "sk", Some(VersionLast),
               PRIMARY, None, Separator), <<>>, None), "latest", "version"),
     WithVersioning(CompositorTable(
         Index("pk", Some(<<Segment(<<>>, "t")>>), "sk", Some(VersionFirst),
               PRIMARY, None, Separator),
         <<Index("gpk", Some(<<Segment(<<>>, "t")>>), "gsk", Some(VersionLast),
                 GLOBAL_SECONDARY, "G", Separator)>>, "a"), "latest", "version"),
     CompositorTable(
         Index("pk", Some(<<Segment(<<>>, "t")>>), "sk",
               Some(<<Segment(<<"i", ":">>, "a")>>), PRIMARY, None, Separator),
         <<>>, None)}

\* The values of the k-th call: the same logical item, a payload of its own.
CallValues(k) ==
    [f \in {"t", "a", "name"} |->
        IF f = "name" THEN StrVal(<<"n">> \o StrOfInt(k)) ELSE StrVal(<<"x">>)]

\* A caller: where it is in its call, the call's arguments and locals, and
\* what its last call returned or raised (pc "done") until it calls again.
IdleWriter ==
    [pc |-> "idle", op |-> "none", call |-> 0, field_values |-> EmptyDict,
     overwrite |-> TRUE, force_overwrite |-> FALSE, items |-> <<>>,
     response |-> Null, raised |-> ""]

Raised(writer, exception) == [writer EXCEPT !.pc = "done", !.raised = exception]
Responded(writer, response) == [writer EXCEPT !.pc = "done", !.response = Some(response)]

\* put_item from the point where the version is known: the items are built
\* and the writes begin.
Writing(writer, self, values) ==
    LET items == PutItemItems(self, values)
    IN  IF items.err # "" THEN Raised(writer, items.err)
        ELSE [writer EXCEPT !.pc = "put", !.field_values = values, !.items = items.val]

\* put_item up to its first request: the values are cleaned; with versioning
\* the version is latest_version + 1 when latest_version is given, and
\* otherwise read from the store.
PutItemBegun(writer, self, values, latest_version) ==
    LET cleaned == ParamsCleanup(Stringify(self, values), TRUE)
    IN  IF ~self.versioning_enabled THEN Writing(writer, self, cleaned)
        ELSE IF IsNone(latest_version)
        THEN [writer EXCEPT !.pc = "get_next_version", !.field_values = cleaned]
        ELSE IF Get(latest_version).type # "int" THEN Raised(writer, "TypeError")
        ELSE Writing(writer, self,
                     DictSet(cleaned, self.versioning_attribute,
                             IntVal(Get(latest_version).n + 1)))

\* A request to the store, as the store saw it.
Request(w, operation, argument, outcome) ==
    [writer |-> w, call |-> writers[w].call, operation |-> operation,
     argument |-> argument, outcome |-> outcome]

\* The store may raise an error of its own on a request, up to
\* MaxStoreErrors times.
StoreMayFail ==
    IF Len(SelectSeq(requests, LAMBDA r : r.outcome = "ClientError")) < MaxStoreErrors
    THEN BOOLEAN ELSE {FALSE}

\* Calls are numbered as they begin; a caller keeps the number of its last
\* call.
CallsBegun ==
    CHOOSE n \in {writers[w].call : w \in Writers} :
        \A w \in Writers : writers[w].call <= n

InitStore ==
    /\ index = NoIndex
    /\ table \in StoreTables
    /\ field_values = EmptyDict
    /\ call = NoCall
    /\ result = NoResult
    /\ dynamo_table = {}
    /\ writers = [w \in Writers |-> IdleWriter]
    /\ requests = <<>>

\* The latest_version arguments of put_item: None (the default) or a version.
LatestVersions == {Null} \cup {Some(IntVal(n)) : n \in 0..MaxInt}

\* put_item(field_values, overwrite, latest_version) is called.
PutItemCall(w) ==
    /\ writers[w].pc \in {"idle", "done"}
    /\ CallsBegun < MaxCalls
    /\ \E overwrite \in BOOLEAN, latest_version \in LatestVersions :
        writers' = [writers EXCEPT ![w] =
            PutItemBegun([IdleWriter EXCEPT !.op = "put_item", !.call = CallsBegun + 1,
                                            !.overwrite = overwrite],
                         table, CallValues(CallsBegun + 1), latest_version)]
    /\ UNCHANGED <<index, table, field_values, call, result, dynamo_table, requests>>

\* get_next_version reads the record at version 0 and put_item builds its
\* items with the version after the one read.
GetNextVersionRead(w) ==
    LET writer == writers[w]
        key == GetNextVersionKey(table, writer.field_values)
        version == GetNextVersion(table, GetItem(dynamo_table, table, key.val))
    IN  /\ writer.pc = "get_next_version"
        /\ IF key.err # ""
           THEN /\ writers' = [writers EXCEPT ![w] = Raised(writer, key.err)]
                /\ UNCHANGED requests
           ELSE \E fails \in StoreMayFail :
                IF fails
                THEN /\ writers' = [writers EXCEPT ![w] = Raised(writer, "ClientError")]
                     /\ requests' = Append(requests,
                                           Request(w, "get_item", key.val, "ClientError"))
                ELSE /\ writers' = [writers EXCEPT ![w] =
                            IF version.err # "" THEN Raised(writer, version.err)
                            ELSE Writing(writer, table,
                                         DictSet(writer.field_values,
                                                 table.versioning_attribute,
                                                 IntVal(version.val)))]
                     /\ requests' = Append(requests, Request(w, "get_item", key.val, "ok"))
        /\ UNCHANGED <<index, table, field_values, call, result, dynamo_table>>

\* put_item puts its next item: the store raises an error of its own, or
\* rejects the item on the ConditionExpression, or stores it; after the last
\* item the call returns.
PutItemWrite(w) ==
    LET writer == writers[w]
        item == Head(writer.items)
        condition == GetNeConditional(table.primary_index, writer.field_values)
        body == Destringify(table, writer.field_values)
    IN  /\ writer.pc = "put"
        /\ IF ~writer.overwrite /\ condition.err # ""
           THEN /\ writers' = [writers EXCEPT ![w] = Raised(writer, condition.err)]
                /\ UNCHANGED <<dynamo_table, requests>>
           ELSE \E fails \in StoreMayFail :
                IF fails
                THEN /\ writers' = [writers EXCEPT ![w] = Raised(writer, "ClientError")]
                     /\ requests' = Append(requests,
                                           Request(w, "put_item", item, "ClientError"))
                     /\ UNCHANGED dynamo_table
                ELSE IF /\ ~writer.overwrite
                        /\ ~ConditionHolds(condition.val, GetItem(dynamo_table, table, item))
                THEN /\ writers' = [writers EXCEPT ![w] =
                            Responded(writer, Duplicate(table, writer.field_values))]
                     /\ requests' = Append(requests,
                            Request(w, "put_item", item, "ConditionalCheckFailedException"))
                     /\ UNCHANGED dynamo_table
                ELSE /\ dynamo_table' = StoreAfterPut(dynamo_table, table, item)
                     /\ requests' = Append(requests, Request(w, "put_item", item, "ok"))
                     /\ writers' = [writers EXCEPT ![w] =
                            IF Len(writer.items) > 1
                            THEN [writer EXCEPT !.items = Tail(writer.items)]
                            ELSE IF body.err # "" THEN Raised(writer, body.err)
                            ELSE Responded([writer EXCEPT !.items = <<>>],
                                           Created(body.val))]
        /\ UNCHANGED <<index, table, field_values, call, result>>

\* update_item(field_values, force_overwrite) is called.
UpdateItemCall(w) ==
    /\ writers[w].pc \in {"idle", "done"}
    /\ CallsBegun < MaxCalls
    /\ \E force_overwrite \in BOOLEAN :
        writers' = [writers EXCEPT ![w] =
            [IdleWriter EXCEPT !.pc = "query", !.op = "update_item",
                               !.call = CallsBegun + 1,
                               !.force_overwrite = force_overwrite,
                               !.field_values = CallValues(CallsBegun + 1)]]
    /\ UNCHANGED <<index, table, field_values, call, result, dynamo_table, requests>>

\* update_item queries the latest item through get_items, returns 404 when
\* there is none, and otherwise calls put_item with the values of the item's
\* keys and its latest version.
UpdateItemQuery(w) ==
    LET writer == writers[w]
        query_args == GetItemsQueryArgs(table,
                          UpdateItemLatestValues(table, writer.field_values,
                                                 writer.force_overwrite),
                          FALSE, TRUE)
        items == Query(dynamo_table, table, query_args.val)
        latest_item == Project(items[1],
                               UpdateItemReturnFields(table, writer.force_overwrite))
        arguments == UpdateItemPutArguments(table, writer.field_values,
                                            writer.force_overwrite, latest_item)
    IN  /\ writer.pc = "query"
        /\ IF query_args.err # ""
           THEN /\ writers' = [writers EXCEPT ![w] = Raised(writer, query_args.err)]
                /\ UNCHANGED requests
           ELSE \E fails \in StoreMayFail :
                IF fails
                THEN /\ writers' = [writers EXCEPT ![w] = Raised(writer, "ClientError")]
                     /\ requests' = Append(requests,
                            Request(w, "query", EmptyDict, "ClientError"))
                ELSE /\ requests' = Append(requests, Request(w, "query", EmptyDict, "ok"))
                     /\ writers' = [writers EXCEPT ![w] =
                            IF Len(items) < 1 THEN Responded(writer, NoneFound)
                            ELSE IF arguments.err # "" THEN Raised(writer, arguments.err)
                            ELSE PutItemBegun(writer, table, arguments.val.field_values,
                                              arguments.val.latest_version)]
        /\ UNCHANGED <<index, table, field_values, call, result, dynamo_table>>

\* is_latest(item) is called on a stored item, between the calls that write.
IsLatestCall ==
    /\ call.op = "idle"
    /\ \A w \in Writers : writers[w].pc \in {"idle", "done"}
    /\ \E item \in dynamo_table :
        /\ field_values' = item
        /\ result' = IsLatest(table, item)
    /\ call' = Call("is_latest")
    /\ UNCHANGED <<index, table, dynamo_table, writers, requests>>

IsLatestReturn ==
    /\ call.op = "is_latest"
    /\ call' = NoCall
    /\ result' = NoResult
    /\ field_values' = EmptyDict
    /\ UNCHANGED <<index, table, dynamo_table, writers, requests>>

NextStore ==
    \/ \E w \in Writers : PutItemCall(w)
    \/ \E w \in Writers : GetNextVersionRead(w)
    \/ \E w \in Writers : PutItemWrite(w)
    \/ \E w \in Writers : UpdateItemCall(w)
    \/ \E w \in Writers : UpdateItemQuery(w)
    \/ IsLatestCall
    \/ IsLatestReturn

SpecStore == InitStore /\ [][NextStore]_vars

(***************************************************************************)
(* The shared-engine specification: up to MaxCallers callers call the      *)
(* methods of the engine on the indexes of one table, all passing the same *)
(* value map object.  Each caller keeps the call it made (with the value   *)
(* map and the index or table as they were when it called) and the result  *)
(* it got, until it returns.                                               *)
(***************************************************************************)
Callers == 1..MaxCallers

\* The tables: primary "{t}" with "i:v{a}:{b}:{c}", alone or with the global
\* secondary index G1 "{t}" with "i:v{c}:{a}", with and without the unique id
\* attribute a.
SharedTables ==
    {CompositorTable(
        Index("pk", Some(<<Segment(<<>>, "t")>>), "sk",
              Some(SortFormatOf("prefixed", <<"a", "b", "c">>)), PRIMARY, None, Separator),
        secondaries, unique_id) :
        secondaries \in
            {<<>>,
             <<Index("gpk", Some(<<Segment(<<>>, "t")>>), "gsk",
                     Some(SortFormatOf("prefixed", <<"c", "a">>)),
                     GLOBAL_SECONDARY, "G1", Separator)>>},
        unique_id \in {None, "a"}}

SharedUniqueIdNames == {None, "a"}
SharedKeyScores == {0, 100}

\* The index a method is called on: 0 is the primary index, i the i-th
\* secondary index.
EngineOn(self, on) == IF on = 0 THEN self.primary_index ELSE self.secondary_indexes[on]

EngineTargets == 0..Len(table.secondary_indexes)

\* Variant in which full_key updates the value map it was given with the key
\* attributes, instead of the dict partition_key_value built.
ValueMapAfterFullKeyUpdates(op, self, values) ==
    IF op = "full_key" /\ FullKey(self, values).err = ""
    THEN DictUpdate(values, KeyAttributes(FullKey(self, values).val))
    ELSE values

\* The caller's value map after a method of the engine ran on it.  No method
\* assigns to an entry of field_values or to an attribute of self: they build
\* new values (score, best_match, key, expression, query_args), and the one
\* update(), in full_key, is applied to the dict partition_key_value returned.
ValueMapAfter(op, self, values) == values

IdleCall ==
    [op |-> "idle", on |-> 0, unique_id |-> None, key_score |-> 0, force |-> FALSE,
     field_values |-> EmptyDict, self |-> <<>>]

\* The call of method op on the object self with the shared value map.
Made(op, on, self) ==
    [IdleCall EXCEPT !.op = op, !.on = on, !.field_values = field_values, !.self = self]

InitShared ==
    /\ index = NoIndex
    /\ table \in SharedTables
    /\ field_values \in ValueMaps
    /\ call = [c \in Callers |-> IdleCall]
    /\ result = [c \in Callers |-> NoResult]
    /\ dynamo_table = {}
    /\ writers = <<>>
    /\ requests = <<>>

\* Caller c makes the call and gets the result res.
Calls(c, made, res) ==
    /\ call[c].op = "idle"
    /\ call' = [call EXCEPT ![c] = made]
    /\ result' = [result EXCEPT ![c] = res]
    /\ field_values' = ValueMapAfter(made.op, made.self, field_values)
    /\ UNCHANGED <<index, table, dynamo_table, writers, requests>>

QueryScoreBy(c) ==
    \E on \in EngineTargets, unique_id \in SharedUniqueIdNames :
        Calls(c, [Made("query_score", on, EngineOn(table, on)) EXCEPT !.unique_id = unique_id],
              Ok(QueryScore(EngineOn(table, on), field_values, unique_id)))

GetSortBestMatchBy(c) ==
    \E on \in EngineTargets :
        Calls(c, Made("get_sort_best_match", on, EngineOn(table, on)),
              GetSortBestMatch(EngineOn(table, on), field_values))

GetConditionExpressionBy(c) ==
    \E on \in EngineTargets, key_score \in SharedKeyScores, force \in BOOLEAN :
        Calls(c, [Made("get_condition_expression", on, EngineOn(table, on)) EXCEPT
                      !.key_score = key_score, !.force = force],
              GetConditionExpression(EngineOn(table, on), field_values, key_score, force))

PartitionKeyValueBy(c) ==
    \E on \in EngineTargets :
        Calls(c, Made("partition_key_value", on, EngineOn(table, on)),
              PartitionKeyValue(EngineOn(table, on), field_values))

SortKeyValueBy(c) ==
    \E on \in EngineTargets :
        Calls(c, Made("sort_key_value", on, EngineOn(table, on)),
              SortKeyValue(EngineOn(table, on), field_values))

FullKeyBy(c) ==
    \E on \in EngineTargets :
        Calls(c, Made("full_key", on, EngineOn(table, on)),
              FullKey(EngineOn(table, on), field_values))

GetNeConditionalBy(c) ==
    \E on \in EngineTargets :
        Calls(c, Made("get_ne_conditional", on, EngineOn(table, on)),
              GetNeConditional(EngineOn(table, on), field_values))

GetQueryKeyConditionExpressionBy(c) ==
    \E force \in BOOLEAN :
        Calls(c, [Made("get_query_key_condition_expression", 0, table) EXCEPT !.force = force],
              GetQueryKeyConditionExpression(table, field_values, force))

ReturnTo(c) ==
    /\ call[c].op # "idle"
    /\ call' = [call EXCEPT ![c] = IdleCall]
    /\ result' = [result EXCEPT ![c] = NoResult]
    /\ UNCHANGED <<index, table, field_values, dynamo_table, writers, requests>>

NextShared ==
    \E c \in Callers :
        \/ QueryScoreBy(c)
        \/ GetSortBestMatchBy(c)
        \/ GetConditionExpressionBy(c)
        \/ PartitionKeyValueBy(c)
        \/ SortKeyValueBy(c)
        \/ FullKeyBy(c)
        \/ GetNeConditionalBy(c)
        \/ GetQueryKeyConditionExpressionBy(c)
        \/ ReturnTo(c)

SpecShared == InitShared /\ [][NextShared]_vars

(***************************************************************************)
(* The reverse-parse specification: reverse_format_string called on any    *)
(* string of up to MaxKeyLen characters with a format string.              *)
(***************************************************************************)
KeyChars == {"i", ":", "x", "#"}

KeyStrings == UNION {[1..n -> KeyChars] : n \in 0..MaxKeyLen}

\* The format strings "i:{a}", "i:{a}:{b}" and "{a}#".
ReverseFormats ==
    {<<Segment(<<"i", ":">>, "a")>>,
     <<Segment(<<"i", ":">>, "a"), Segment(<<":">>, "b")>>,
     <<Segment(<<>>, "a"), Segment(<<"#">>, None)>>}

InitReverse ==
    /\ index = NoIndex
    /\ table = NoTable
    /\ field_values = EmptyDict
    /\ call = NoCall
    /\ result = NoResult
    /\ dynamo_table = {}
    /\ writers = <<>>
    /\ requests = <<>>

ReverseFormatStringCall ==
    /\ call.op = "idle"
    /\ \E actual_string \in KeyStrings, format_string \in ReverseFormats :
        /\ call' = [op |-> "reverse_format_string",
                    actual_string |-> actual_string,
                    format_string |-> format_string]
        /\ result' = ReverseFormatString(actual_string, Some(format_string))
    /\ UNCHANGED <<index, table, field_values, dynamo_table, writers, requests>>

NextReverse ==
    \/ ReverseFormatStringCall
    \/ Return

SpecReverse == InitReverse /\ [][NextReverse]_vars

(***************************************************************************)
(* The construction specification: Index(...) called with any of the       *)
(* format strings, index types and separators below.                       *)
(***************************************************************************)
\* Index.__index_enum_to_bool: the constructor raises UnknownIndexTypeError
\* when this holds.  The index type passed is Null for None, Some(n) for a
\* number.
IndexEnumRaises(index_type) ==
    \/ IsNone(index_type)
    \/ Get(index_type) \notin {PRIMARY, GLOBAL_SECONDARY, LOCAL_SECONDARY}

\* Index(...): the object constructed, or the exception __init__ raises.  The
\* separator is checked before the index type.
NewIndex(partition_key_name, partition_key_format, sort_key_name, sort_key_format, index_type, name, composite_separator) ==
    IF CompositeSeparatorRaises(FormatStringFieldList(partition_key_format),
                                FormatStringFieldList(sort_key_format),
                                composite_separator)
    THEN Raise("RuntimeError")
    ELSE IF IndexEnumRaises(index_type) THEN Raise("UnknownIndexTypeError")
    ELSE Ok(Index(partition_key_name, partition_key_format, sort_key_name,
                  sort_key_format, Get(index_type), name, composite_separator))

\* The index types passed: the three members of IndexType, None, and a
\* number that is no member.
IndexTypesPassed ==
    {Some(PRIMARY), Some(GLOBAL_SECONDARY), Some(LOCAL_SECONDARY), Null,
     Some(LOCAL_SECONDARY - 10)}

\* The separators passed: none, ":" and the empty string.
SeparatorsPassed == {Null, Separator, Some(<<>>)}

\* The sort-key format strings passed: none, every format of the engine
\* specification, and the literal "i" with no placeholder.
SortFormatsPassed ==
    {Null, Some(<<Segment(<<"i">>, None)>>)} \cup {Some(sf) : sf \in SortFormats}

InitIndex ==
    /\ index = NoIndex
    /\ table = NoTable
    /\ field_values = EmptyDict
    /\ call = NoCall
    /\ result = NoResult
    /\ dynamo_table = {}
    /\ writers = <<>>
    /\ requests = <<>>

\* index = Index(...): the name is bound only when the constructor returns.
IndexInit ==
    /\ call.op = "idle"
    /\ \E pf \in PartitionFormats, sf \in SortFormatsPassed,
          index_type \in IndexTypesPassed, separator \in SeparatorsPassed :
        LET sort_key_name == IF IsNone(sf) THEN None ELSE "sk"
            made == NewIndex("pk", Some(pf), sort_key_name, sf, index_type, None, separator)
        IN  /\ call' = [op |-> "__init__",
                        partition_key_format |-> Some(pf),
                        sort_key_format |-> sf,
                        index_type |-> index_type,
                        composite_separator |-> separator]
            /\ result' = made
            /\ index' = IF made.err = "" THEN made.val ELSE NoIndex
    /\ UNCHANGED <<table, field_values, dynamo_table, writers, requests>>

\* The caller drops the index and the outcome of the construction.
IndexDropped ==
    /\ call.op = "__init__"
    /\ call' = NoCall
    /\ result' = NoResult
    /\ index' = NoIndex
    /\ UNCHANGED <<table, field_values, dynamo_table, writers, requests>>

NextIndex ==
    \/ IndexInit
    \/ IndexDropped

SpecIndex == InitIndex /\ [][NextIndex]_vars

(***************************************************************************)
(* Projections and schema validation.  Attribute names are spelled out as  *)
(* sequences of characters where get_expression builds aliases from them.  *)
(***************************************************************************)
LowerLetters ==
    <<"a", "b", "c", "d", "e", "f", "g", "h", "i", "j", "k", "l", "m",
      "n", "o", "p", "q", "r", "s", "t", "u", "v", "w", "x", "y", "z">>

UpperLetters ==
    <<"A", "B", "C", "D", "E", "F", "G", "H", "I", "J", "K", "L", "M",
      "N", "O", "P", "Q", "R", "S", "T", "U", "V", "W", "X", "Y", "Z">>

\* str.upper()
Upper(s) ==
    [i \in 1..Len(s) |->
        IF \E k \in 1..26 : LowerLetters[k] = s[i]
        THEN UpperLetters[CHOOSE k \in 1..26 : LowerLetters[k] = s[i]]
        ELSE s[i]]

\* RESERVED_WORDS, the entries the attribute names of the model can match.
RESERVED_WORDS ==
    {<<"A", "S">>, <<"N", "A", "M", "E">>, <<"N", "O">>, <<"N", "O", "T">>,
     <<"N", "O", "N", "E">>, <<"T", "Y", "P", "E">>}

\* One pass of get_expression's while loop: "#" + field[: len(field_alias)]
NextFieldAlias(field, field_alias) ==
    <<"#">> \o SubSeq(field, 1, IF Len(field_alias) < Len(field)
                                THEN Len(field_alias) ELSE Len(field))

\* The while loop's condition.
AliasTaken(field_alias, expression_attribute_names) ==
    field_alias \in DOMAIN expression_attribute_names \/ field_alias = <<"#">>

\* The alias the while loop ends with, None when it never ends: the alias
\* stops changing once it is "#" + field, and the loop goes on if that is
\* taken too.
RECURSIVE FieldAlias(_, _, _)
FieldAlias(field, field_alias, expression_attribute_names) ==
    IF ~AliasTaken(field_alias, expression_attribute_names) THEN Some(field_alias)
    ELSE IF NextFieldAlias(field, field_alias) = field_alias THEN Null
    ELSE FieldAlias(field, NextFieldAlias(field, field_alias), expression_attribute_names)

\* get_expression's loop over the fields.  ExpressionAttributeNames is the
\* empty dict when the response has no such key; the error "no return" is
\* a call that never returns.
RECURSIVE GetExpressionOver(_, _, _)
GetExpressionOver(fields, projection_expression, expression_attribute_names) ==
    IF fields = <<>>
    THEN Ok([ProjectionExpression |-> projection_expression,
             ExpressionAttributeNames |-> expression_attribute_names])
    ELSE LET field == Head(fields)
             field_alias == FieldAlias(field, <<"#">>, expression_attribute_names)
         IN  IF Upper(field) \notin RESERVED_WORDS
             THEN GetExpressionOver(Tail(fields), Append(projection_expression, field),
                                    expression_attribute_names)
             ELSE IF IsNone(field_alias) THEN Raise("no return")
             ELSE GetExpressionOver(Tail(fields),
                      Append(projection_expression, Get(field_alias)),
                      DictSet(expression_attribute_names, Get(field_alias), field))

\* The characters of an attribute name of the read tables.
FieldChars(name) ==
    IF name = "tenant_id" THEN <<"t", "e", "n", "a", "n", "t", "_", "i", "d">>
    ELSE IF name = "id" THEN <<"i", "d">>
    ELSE IF name = "name" THEN <<"n", "a", "m", "e">>
    ELSE IF name = "flowFilterId"
    THEN <<"f", "l", "o", "w", "F", "i", "l", "t", "e", "r", "I", "d">>
    ELSE IF name = "version" THEN <<"v", "e", "r", "s", "i", "o", "n">>
    ELSE <<"?">>

\* CompositorTable.get_expression: fields or self.attribute_list, projected.
GetExpression(self, fields) ==
    LET given == IF Len(fields) > 0 THEN fields ELSE self.attribute_list
    IN  GetExpressionOver([i \in 1..Len(given) |-> FieldChars(given[i])], <<>>, EmptyDict)

\* CompositorTable.all_item_properties: attribute_list itself is extended
\* with the format fields of every index (all_field_names is the same list
\* object), and the set of the names is returned.
AttributeListAfter(self) ==
    LET RECURSIVE Extended(_, _)
        Extended(list, i) ==
            IF i > Len(self.secondary_indexes) THEN list
            ELSE Extended(list \o self.secondary_indexes[i].partition_key_format_fields
                               \o self.secondary_indexes[i].sort_key_format_fields,
                          i + 1)
    IN  Extended(self.attribute_list \o self.primary_index.partition_key_format_fields
                     \o self.primary_index.sort_key_format_fields, 1)

AllItemProperties(self) ==
    {AttributeListAfter(self)[i] : i \in 1..Len(AttributeListAfter(self))}

(***************************************************************************)
(* The read specification: get_items, delete_item, get_expression and the  *)
(* schema validation methods called on a table whose store holds what      *)
(* put_item wrote for up to two logical items.                             *)
(***************************************************************************)
DataDefinition == <<"d", "a", "t", "a", "d", "e", "f", "i", "n", "i", "t", "i", "o", "n">>

\* The indexes of the test table: primary "{tenant_id}" with sort key
\* "datadefinition:v{version}:{flowFilterId}:{id}", and the secondary index
\* GSI "{tenant_id}" with sort key "datadefinition:{id}:v{version}".
TestPrimaryIndex ==
    Index("pk", Some(<<Segment(<<>>, "tenant_id")>>), "ps",
          Some(<<Segment(DataDefinition \o <<":", "v">>, "version"),
                 Segment(<<":">>, "flowFilterId"), Segment(<<":">>, "id")>>),
          PRIMARY, None, Separator)

TestSecondaryIndex ==
    Index("pk", Some(<<Segment(<<>>, "tenant_id")>>), "gss",
          Some(<<Segment(DataDefinition \o <<":">>, "id"),
                 Segment(<<":", "v">>, "version")>>),
          GLOBAL_SECONDARY, "GSI", Separator)

\* CompositorTable.__init__, the attribute_list argument and the debug flag
\* taken from the logger's level (LOG_LEVEL in the environment).
WithAttributeList(self, attribute_list, debug) ==
    self @@ [attribute_list |-> attribute_list, debug |-> debug]

TestAttributeList == <<"tenant_id", "id", "name", "flowFilterId", "version">>

\* The test table, the same table without versioning, and a table without
\* versioning whose primary index has no sort key, each with the logger at
\* its default level or at DEBUG.
TestTable(debug) ==
    WithAttributeList(
        WithVersioning(CompositorTable(TestPrimaryIndex, <<TestSecondaryIndex>>, "id"),
                       "latest", "version"),
        TestAttributeList, debug)

ReadTables ==
    UNION {{TestTable(debug),
            WithAttributeList(
                CompositorTable(TestPrimaryIndex, <<TestSecondaryIndex>>, "id"),
                TestAttributeList, debug),
            WithAttributeList(
                CompositorTable(Index("pk", Some(<<Segment(<<"e", ":">>, "id")>>),
                                      None, Null, PRIMARY, None, Separator),
                                <<>>, "id"),
                TestAttributeList, debug)} : debug \in BOOLEAN}

\* The logical items of the store, by id, and the records put_item writes
\* for one of them at version 1.
StoredValues(id) ==
    [f \in {"tenant_id", "flowFilterId", "id", "name", "version"} |->
        IF f = "tenant_id" THEN StrVal(<<"1">>)
        ELSE IF f = "flowFilterId" THEN StrVal(<<"f">>)
        ELSE IF f = "id" THEN StrVal(<<id>>)
        ELSE IF f = "name" THEN StrVal(<<"n", id>>)
        ELSE IntVal(1)]

RECURSIVE SeqToSet(_)
SeqToSet(s) == IF s = <<>> THEN {} ELSE {Head(s)} \cup SeqToSet(Tail(s))

StoredRecords(self, id) == SeqToSet(PutItemItems(self, StoredValues(id)).val)

ReadStores(self) ==
    {{}, StoredRecords(self, "7"), StoredRecords(self, "7") \cup StoredRecords(self, "8")}

\* The field_values a caller passes: any of the key fields, with an id that
\* is stored, or blank, and a version that is a number or absent.
ReadFieldChoices(f) ==
    IF f = "tenant_id" THEN {StrVal(<<"1">>)}
    ELSE IF f = "flowFilterId" THEN {StrVal(<<"f">>)}
    ELSE IF f = "id" THEN {StrVal(<<"7">>), StrVal(<<" ">>)}
    ELSE {IntVal(n) : n \in 0..MaxInt}

ReadValueMaps ==
    UNION {{m \in [present -> UNION {ReadFieldChoices(f) : f \in present}] :
                \A f \in present : m[f] \in ReadFieldChoices(f)} :
           present \in SUBSET {"tenant_id", "flowFilterId", "id", "version"}}

\* A call of the read specification, with the arguments it was given.
ReadCall(op, values, force, null_if_empty) ==
    [op |-> op, unique_id |-> None, key_score |-> 0, force |-> force,
     field_values |-> values, null_if_empty |-> null_if_empty]

InitRead ==
    /\ index = NoIndex
    /\ table \in ReadTables
    /\ field_values \in ReadValueMaps
    /\ call = NoCall
    /\ result = NoResult
    /\ dynamo_table \in ReadStores(table)
    /\ writers = <<>>
    /\ requests = <<>>

\* get_items(field_values, return_fields, force_key_begins_with,
\* null_if_empty): the caller's dict is cleaned in place and given the
\* versioning default, the index is selected on it, and the store is queried
\* with the resulting condition and the projection of return_fields.
GetItemsCall ==
    /\ call.op = "idle"
    /\ \E force \in BOOLEAN, null_if_empty \in BOOLEAN,
          return_fields \in {{"id", "name", "version"}} :
        LET values == GetItemsValues(table, field_values, null_if_empty)
            query_args == GetQueryKeyConditionExpression(table, values, force)
            items == Query(dynamo_table, table, query_args.val)
        IN  /\ call' = ReadCall("get_items", field_values, force, null_if_empty)
            /\ field_values' = values
            /\ IF query_args.err # ""
               THEN result' = query_args /\ UNCHANGED requests
               ELSE /\ result' = Ok([Items |-> [i \in 1..Len(items) |->
                                                   Project(items[i], return_fields)]])
                    /\ requests' = Append(requests,
                           [writer |-> 0, call |-> 0, operation |-> "query",
                            argument |-> query_args.val, outcome |-> "ok"])
    /\ UNCHANGED <<index, table, dynamo_table, writers>>

\* The Key of a DeleteRequest for an item: its primary-index key attributes.
DeleteRequestKey(self, item) == Project(item, PrimaryKeyNames(self))

\* delete_item, the loop over the queried items: del_item becomes a copy of
\* the first item on a table without versioning and of each item is_latest
\* accepts on a table with it; the item is logged, which raises TypeError
\* when debug messages are enabled (logger.debug is given the keyword
\* arguments k and s); its DeleteRequest is appended.
RECURSIVE DeleteItemLoop(_, _, _, _)
DeleteItemLoop(self, items, del_item, delete_items) ==
    IF items = <<>> THEN Ok([del_item |-> del_item, delete_items |-> delete_items])
    ELSE LET item == Destringify(self, Head(items))
             latest == IsLatest(self, item.val)
         IN  IF item.err # "" THEN item
             ELSE IF latest.err # "" THEN latest
             ELSE IF PrimaryKeyNames(self) \ DOMAIN item.val # {} THEN Raise("KeyError")
             ELSE IF self.debug THEN Raise("TypeError")
             ELSE DeleteItemLoop(self, Tail(items),
                      IF (~self.versioning_enabled /\ IsNone(del_item)) \/ latest.val
                      THEN Some(item.val) ELSE del_item,
                      Append(delete_items, DeleteRequestKey(self, item.val)))

\* batch_write_item of DeleteRequests: the store without the items at the keys.
StoreAfterDelete(store, delete_items) ==
    {item \in store :
        \A i \in 1..Len(delete_items) :
            \E name \in DOMAIN delete_items[i] :
                name \notin DOMAIN item \/ item[name] # delete_items[i][name]}

\* delete_item, the body it returns: del_item without the key attributes;
\* TypeError when del_item is still None.
DeleteItemBody(self, del_item) ==
    IF IsNone(del_item) THEN Raise("TypeError")
    ELSE IF GetAllKeyFieldNames(self) \ DOMAIN Get(del_item) # {} THEN Raise("KeyError")
    ELSE Ok([HTTPStatusCode |-> 200,
             body |-> [item |-> Project(Get(del_item),
                                        DOMAIN Get(del_item) \ GetAllKeyFieldNames(self)),
                       deleted |-> TRUE]])

\* delete_item(field_values): the values are cleaned in place, the items are
\* queried with all key attributes and the attribute_list projected, 404 is
\* returned when there are none, and otherwise their keys are collected,
\* deleted in one batch_write_item, and the body is built.
DeleteItemCall ==
    LET values == ParamsCleanup(field_values, TRUE)
        all_field_names == GetAllKeyFieldNames(table) \cup SeqToSet(table.attribute_list)
        query_args == GetQueryKeyConditionExpression(table, values, FALSE)
        found == Query(dynamo_table, table, query_args.val)
        existing_items == [i \in 1..Len(found) |-> Project(found[i], all_field_names)]
        loop == DeleteItemLoop(table, existing_items, Null, <<>>)
        query == [writer |-> 0, call |-> 0, operation |-> "query",
                  argument |-> query_args.val, outcome |-> "ok"]
    IN  /\ call.op = "idle"
        /\ call' = ReadCall("delete_item", field_values, FALSE, TRUE)
        /\ field_values' = values
        /\ IF query_args.err # ""
           THEN result' = query_args /\ UNCHANGED <<requests, dynamo_table>>
           ELSE IF Len(existing_items) < 1
           THEN /\ result' = Ok(NoneFound)
                /\ requests' = Append(requests, query)
                /\ UNCHANGED dynamo_table
           ELSE IF loop.err # ""
           THEN /\ result' = loop
                /\ requests' = Append(requests, query)
                /\ UNCHANGED dynamo_table
           ELSE /\ result' = DeleteItemBody(table, loop.val.del_item)
                /\ requests' = requests \o
                       <<query, [writer |-> 0, call |-> 0,
                                 operation |-> "batch_write_item",
                                 argument |-> loop.val.delete_items, outcome |-> "ok"]>>
                /\ dynamo_table' = StoreAfterDelete(dynamo_table, loop.val.delete_items)
        /\ UNCHANGED <<index, table, writers>>

\* all_item_properties(), while attribute_list is shorter than MaxAttributes.
AllItemPropertiesCall ==
    /\ call.op = "idle"
    /\ Len(table.attribute_list) < MaxAttributes
    /\ call' = ReadCall("all_item_properties", field_values, FALSE, TRUE)
    /\ table' = [table EXCEPT !.attribute_list = AttributeListAfter(table)]
    /\ result' = Ok(AllItemProperties(table))
    /\ UNCHANGED <<index, field_values, dynamo_table, writers, requests>>

\* errant_field_values(field_values): the keys that all_item_properties does
\* not list.
ErrantFieldValuesCall ==
    /\ call.op = "idle"
    /\ Len(table.attribute_list) < MaxAttributes
    /\ call' = ReadCall("errant_field_values", field_values, FALSE, TRUE)
    /\ table' = [table EXCEPT !.attribute_list = AttributeListAfter(table)]
    /\ result' = Ok(DOMAIN field_values \ AllItemProperties(table))
    /\ UNCHANGED <<index, field_values, dynamo_table, writers, requests>>

\* The return_fields a caller passes: None, declared names, an unknown name.
ReturnFieldLists == {<<>>, <<"id", "name">>, <<"id", "colour">>}

\* errant_return_fields(return_fields): the fields that all_item_properties
\* does not list, in the order given.
ErrantReturnFieldsCall ==
    /\ call.op = "idle"
    /\ Len(table.attribute_list) < MaxAttributes
    /\ \E return_fields \in ReturnFieldLists \ {<<>>} :
        /\ call' = [ReadCall("errant_return_fields", field_values, FALSE, TRUE)
                        EXCEPT !.unique_id = return_fields]
        /\ result' = Ok(SelectSeq(return_fields,
                                  LAMBDA field : field \notin AllItemProperties(table)))
    /\ table' = [table EXCEPT !.attribute_list = AttributeListAfter(table)]
    /\ UNCHANGED <<index, field_values, dynamo_table, writers, requests>>

\* get_expression(fields)
GetExpressionCall ==
    /\ call.op = "idle"
    /\ \E fields \in ReturnFieldLists :
        /\ call' = [ReadCall("get_expression", field_values, FALSE, TRUE)
                        EXCEPT !.unique_id = fields]
        /\ result' = GetExpression(table, fields)
    /\ UNCHANGED <<index, table, field_values, dynamo_table, writers, requests>>

\* The caller takes the outcome and builds its next dict of values.
ReadReturn ==
    /\ call.op # "idle"
    /\ call' = NoCall
    /\ result' = NoResult
    /\ requests' = <<>>
    /\ field_values' \in ReadValueMaps
    /\ UNCHANGED <<index, table, dynamo_table, writers>>

NextRead ==
    \/ GetItemsCall
    \/ DeleteItemCall
    \/ AllItemPropertiesCall
    \/ ErrantFieldValuesCall
    \/ ErrantReturnFieldsCall
    \/ GetExpressionCall
    \/ ReadReturn

SpecRead == InitRead /\ [][NextRead]_vars

(***************************************************************************)
(* The projection specification: get_expression on a list of field names,  *)
(* one step per pass of its for loop and of its while loop.                *)
(***************************************************************************)
\* The field names a caller passes: reserved words that share prefixes, and
\* a name that is not reserved.
AliasFieldNames ==
    {<<"a", "s">>, <<"n", "o">>, <<"n", "o", "t">>, <<"n", "o", "n", "e">>, <<"i", "d">>}

AliasFieldLists ==
    UNION {[1..n -> AliasFieldNames] : n \in 0..MaxFields}

\* get_expression at a point of its loops: the fields still to be visited
\* (the first is the one in hand) and the alias being tried.
AliasCall(op, fields, field_alias) ==
    [op |-> op, unique_id |-> None, key_score |-> 0, force |-> FALSE,
     fields |-> fields, field_alias |-> field_alias]

InitAlias ==
    /\ index = NoIndex
    /\ table = NoTable
    /\ field_values = EmptyDict
    /\ call \in {AliasCall("for", fields, <<>>) : fields \in AliasFieldLists}
    /\ result = Ok([ProjectionExpression |-> <<>>, ExpressionAttributeNames |-> EmptyDict])
    /\ dynamo_table = {}
    /\ writers = <<>>
    /\ requests = <<>>

\* The for loop takes a field that is not a reserved word.
ForPlainField ==
    /\ call.op = "for"
    /\ call.fields # <<>>
    /\ Upper(Head(call.fields)) \notin RESERVED_WORDS
    /\ result' = Ok([result.val EXCEPT !.ProjectionExpression = Append(@, Head(call.fields))])
    /\ call' = AliasCall("for", Tail(call.fields), <<>>)
    /\ UNCHANGED <<index, table, field_values, dynamo_table, writers, requests>>

\* The for loop takes a reserved word: field_alias = "#".
ForReservedField ==
    /\ call.op = "for"
    /\ call.fields # <<>>
    /\ Upper(Head(call.fields)) \in RESERVED_WORDS
    /\ call' = AliasCall("while", call.fields, <<"#">>)
    /\ UNCHANGED <<index, table, field_values, result, dynamo_table, writers, requests>>

\* One pass of the while loop: the alias is taken, the next one is tried.
WhilePass ==
    /\ call.op = "while"
    /\ AliasTaken(call.field_alias, result.val.ExpressionAttributeNames)
    /\ call' = AliasCall("while", call.fields,
                         NextFieldAlias(Head(call.fields), call.field_alias))
    /\ UNCHANGED <<index, table, field_values, result, dynamo_table, writers, requests>>

\* The while loop ends: the alias is recorded and projected.
WhileEnd ==
    /\ call.op = "while"
    /\ ~AliasTaken(call.field_alias, result.val.ExpressionAttributeNames)
    /\ result' = Ok([ProjectionExpression |->
                         Append(result.val.ProjectionExpression, call.field_alias),
                     ExpressionAttributeNames |->
                         DictSet(result.val.ExpressionAttributeNames,
                                 call.field_alias, Head(call.fields))])
    /\ call' = AliasCall("for", Tail(call.fields), <<>>)
    /\ UNCHANGED <<index, table, field_values, dynamo_table, writers, requests>>

\* The for loop is over and the response is returned.
GetExpressionReturn ==
    /\ call.op = "for"
    /\ call.fields = <<>>
    /\ call' = AliasCall("done", <<>>, <<>>)
    /\ UNCHANGED <<index, table, field_values, result, dynamo_table, writers, requests>>

NextAlias ==
    \/ ForPlainField
    \/ ForReservedField
    \/ WhilePass
    \/ WhileEnd
    \/ GetExpressionReturn

\* The call keeps running: a step is taken whenever one can be.
SpecAlias == InitAlias /\ [][NextAlias]_vars /\ WF_vars(NextAlias)

(***************************************************************************)
(* Properties.                                                             *)
(***************************************************************************)
Restrict(values, keep) == [k \in (DOMAIN values) \cap keep |-> values[k]]
FieldSet(fields) == {fields[i] : i \in 1..Len(fields)}
PartitionFieldSet(idx) == FieldSet(idx.partition_key_format_fields)
SortFieldSet(idx) == FieldSet(idx.sort_key_format_fields)
Called(op) == call.op = op

\* The score of the i-th secondary index of the table, and of its primary.
ScoreOfSecondary(i) ==
    QueryScore(table.secondary_indexes[i], field_values, table.unique_id_attribute_name)
ScoreOfPrimary ==
    QueryScore(table.primary_index, field_values, table.unique_id_attribute_name)
SecondaryPositions == 1..Len(table.secondary_indexes)

PrimaryScoresHighest == \A i \in SecondaryPositions : ScoreOfPrimary >= ScoreOfSecondary(i)

\* i is the first-declared secondary index among those with the highest
\* secondary score.
FirstBestSecondary(i) ==
    /\ i \in SecondaryPositions
    /\ \A j \in SecondaryPositions : ScoreOfSecondary(j) <= ScoreOfSecondary(i)
    /\ \A j \in 1..(i - 1) : ScoreOfSecondary(j) < ScoreOfSecondary(i)

\* C1: get_query_key_condition_expression uses the primary index if and only
\* if its score is >= the score of every secondary index (the primary wins
\* every tie); otherwise it uses the first-declared secondary index among those
\* with the highest secondary score, and the result carries that index's name
\* as IndexName.  The result is the condition of the index used, built with
\* that index's score, or the error building it raises.
C1_IndexSelection ==
    Called("get_query_key_condition_expression") =>
        IF PrimaryScoresHighest
        THEN LET expression == GetConditionExpression(table.primary_index, field_values,
                                   ScoreOfPrimary, call.force)
             IN  IF expression.err # "" THEN result = expression
                 ELSE /\ result.err = ""
                      /\ result.val.IndexName = None
                      /\ result.val.KeyConditionExpression = expression.val
        ELSE \E i \in SecondaryPositions :
                /\ FirstBestSecondary(i)
                /\ LET expression == GetConditionExpression(table.secondary_indexes[i],
                                         field_values, ScoreOfSecondary(i), call.force)
                   IN  IF expression.err # "" THEN result = expression
                       ELSE /\ result.err = ""
                            /\ result.val.IndexName = table.secondary_indexes[i].name
                            /\ result.val.KeyConditionExpression = expression.val

\* C1 witness: the primary index and a secondary index both score 100, no
\* secondary index scores more, and the primary index is used.
C1_Witness ==
    /\ Called("get_query_key_condition_expression")
    /\ ScoreOfPrimary = 100
    /\ \E i \in SecondaryPositions : ScoreOfSecondary(i) = 100
    /\ PrimaryScoresHighest
    /\ result.err = ""
    /\ result.val.IndexName = None

\* C2: query_score returns 0 for every value map that lacks a partition-key
\* field, whatever sort-key fields and unique-id field are given; so the score
\* of a map with every partition-key field is never below the score of the
\* same map with one partition-key field removed.
C2_PartitionKeyGate ==
    Called("query_score") =>
        /\ (~(PartitionFieldSet(index) \subseteq DOMAIN field_values) => result.val = 0)
        /\ (PartitionFieldSet(index) \subseteq DOMAIN field_values =>
                \A f \in PartitionFieldSet(index) :
                    LET without == Restrict(field_values, (DOMAIN field_values) \ {f})
                        before == QueryScore(index, without, call.unique_id)
                    IN  before = 0 /\ before <= result.val)

\* C2 witness: one of two partition-key fields is missing while the first
\* sort-key field and the unique-id field are supplied, and the score is 0.
C2_Witness ==
    /\ Called("query_score")
    /\ "t" \in DOMAIN field_values
    /\ PartitionFieldSet(index) = {"t", "a"}
    /\ "a" \notin DOMAIN field_values
    /\ Len(index.sort_key_format_fields) > 0
    /\ index.sort_key_format_fields[1] \in DOMAIN field_values
    /\ call.unique_id = index.sort_key_format_fields[1]
    /\ result.val = 0

\* The number of leading fields, in template order, present in keys before
\* the first missing one.
LeadingPresent(fields, keys) ==
    CHOOSE k \in 0..Len(fields) :
        /\ \A i \in 1..k : fields[i] \in keys
        /\ k < Len(fields) => fields[k + 1] \notin keys

\* C3: with every partition-key field present and no unique-id field,
\* query_score is 100 * k / n rounded to the nearest integer, n the number of
\* sort-key fields and k the number of leading sort-key fields present before
\* the first missing one (0 for an index without sort-key fields); sort fields
\* a, b, c with a and c supplied score 33, with b and c supplied 0.
C3_OrderedPrefix ==
    (/\ Called("query_score")
     /\ call.unique_id = None
     /\ PartitionFieldSet(index) \subseteq DOMAIN field_values) =>
        LET fields == index.sort_key_format_fields
            n == Len(fields)
            k == LeadingPresent(fields, DOMAIN field_values)
            supplied == (DOMAIN field_values) \cap {"a", "b", "c"}
        IN  /\ n = 0 => result.val = 0
            /\ n > 0 => /\ 2 * (result.val * n - 100 * k) <= n
                        /\ 2 * (100 * k - result.val * n) <= n
            /\ (fields = <<"a", "b", "c">> /\ supplied = {"a", "c"}) => result.val = 33
            /\ (fields = <<"a", "b", "c">> /\ supplied = {"b", "c"}) => result.val = 0

\* C3 witness: sort fields a, b, c with a and c supplied and b missing score
\* 33.
C3_Witness ==
    /\ Called("query_score")
    /\ call.unique_id = None
    /\ PartitionFieldSet(index) \subseteq DOMAIN field_values
    /\ index.sort_key_format_fields = <<"a", "b", "c">>
    /\ (DOMAIN field_values) \cap {"a", "b", "c"} = {"a", "c"}
    /\ result.val = 33

\* C4: query_score returns an integer between 0 and 100 inclusive, for every
\* index, value map and unique-id field name.
C4_ScoreRange ==
    Called("query_score") => result.val \in 0..100

\* C5: for an index with a sort key, when every partition-key field and
\* every sort-key field is present, query_score returns exactly 100, also
\* when the unique-id field is one of the supplied sort-key fields.
C5_FullMatchScores100 ==
    (/\ Called("query_score")
     /\ Len(index.sort_key_format_fields) > 0
     /\ PartitionFieldSet(index) \subseteq DOMAIN field_values
     /\ SortFieldSet(index) \subseteq DOMAIN field_values) =>
        result.val = 100

CharSet(text) == {text[i] : i \in 1..Len(text)}
SeparatorChars(idx) ==
    IF IsNone(idx.composite_separator) THEN Whitespace
    ELSE CharSet(Get(idx.composite_separator))
PartitionText(idx) == FormatText(Get(idx.partition_key_format), field_values)
SortText(idx) == FormatText(Get(idx.sort_key_format), field_values)

\* prefix is text with its trailing characters of chars removed.
TrimmedOf(prefix, text, chars) ==
    /\ StartsWith(text, prefix)
    /\ \A i \in (Len(prefix) + 1)..Len(text) : text[i] \in chars
    /\ Len(prefix) > 0 => prefix[Len(prefix)] \notin chars

\* C6: the result of get_condition_expression(values, key_score, force) is
\* partition-key equality alone when the index has no sort key; with a sort
\* key it is partition-key equality AND sort-key equality on the formatted sort
\* key when key_score = 100 and force is false, and otherwise partition-key
\* equality AND sort-key begins-with get_sort_best_match(values), the prefix
\* having its trailing separator characters trimmed exactly when force is
\* true.
C6_ConditionShape ==
    (Called("get_condition_expression") /\ result.err = "") =>
        LET partition_equality == Predicate("=", index.partition_key_name, PartitionText(index))
            best == GetSortBestMatch(index, field_values).val
        IN  IF index.sort_key_name = None THEN result.val = <<partition_equality>>
            ELSE IF call.key_score = 100 /\ ~call.force
            THEN result.val = <<partition_equality,
                                Predicate("=", index.sort_key_name, SortText(index))>>
            ELSE /\ Len(result.val) = 2
                 /\ result.val[1] = partition_equality
                 /\ result.val[2].operator = "begins_with"
                 /\ result.val[2].name = index.sort_key_name
                 /\ IF call.force
                    THEN TrimmedOf(result.val[2].value, best, SeparatorChars(index))
                    ELSE result.val[2].value = best

\* C6 witness: a forced call with key_score 100 returns a begins-with whose
\* prefix is shorter than the best match, the trailing separator trimmed.
C6_Witness ==
    /\ Called("get_condition_expression")
    /\ call.force
    /\ call.key_score = 100
    /\ result.err = ""
    /\ Len(result.val) = 2
    /\ result.val[2].operator = "begins_with"
    /\ Len(result.val[2].value) < Len(GetSortBestMatch(index, field_values).val)

RECURSIVE Flatten(_)
Flatten(texts) == IF Len(texts) = 0 THEN <<>> ELSE Head(texts) \o Flatten(Tail(texts))

\* The position of the first segment whose field is not supplied (a trailing
\* literal has none), or one past the last segment.
FirstUnresolved(segments, keys) ==
    CHOOSE j \in 1..(Len(segments) + 1) :
        /\ j <= Len(segments) => segments[j].field \notin keys
        /\ \A i \in 1..(j - 1) : segments[i].field \in keys

\* C7: get_sort_best_match(values) is the concatenation, in template order,
\* of each literal followed by its placeholder's value, ending with the literal
\* that precedes the first placeholder whose field is absent; with every field
\* present it is the formatted sort key; a template starting "i:v{a}" with a
\* absent gives "i:v".
C7_BestPrefix ==
    (Called("get_sort_best_match") /\ result.err = "") =>
        LET segments == Get(index.sort_key_format)
            stop == FirstUnresolved(segments, DOMAIN field_values)
            rendered == [i \in 1..(stop - 1) |->
                            segments[i].lit \o PyStr(field_values[segments[i].field])]
        IN  /\ result.val = Flatten(rendered)
                            \o (IF stop <= Len(segments) THEN segments[stop].lit ELSE <<>>)
            /\ SortFieldSet(index) \subseteq DOMAIN field_values => result.val = SortText(index)
            /\ (segments[1] = Segment(<<"i", ":", "v">>, "a") /\ "a" \notin DOMAIN field_values)
                    => result.val = <<"i", ":", "v">>

\* C7 witness: the first sort-key field is absent and a later one is
\* supplied; the best match is the leading literal "i:v" alone.
C7_Witness ==
    /\ Called("get_sort_best_match")
    /\ result.err = ""
    /\ Len(index.sort_key_format_fields) >= 2
    /\ index.sort_key_format_fields[1] \notin DOMAIN field_values
    /\ index.sort_key_format_fields[2] \in DOMAIN field_values
    /\ result.val = <<"i", ":", "v">>

\* The fields full_key formats.
KeyFieldSet(idx) ==
    PartitionFieldSet(idx) \cup (IF idx.sort_key_name # None THEN SortFieldSet(idx) ELSE {})

\* C8: full_key(values) returns exactly the partition-key attribute with the
\* formatted partition template, plus the sort-key attribute with the
\* formatted sort template when the index has a sort key, or raises KeyError
\* when a placeholder field of a template it formats is absent; it never
\* returns a partial key, and fields of no template are ignored.
C8_FullKey ==
    Called("full_key") =>
        IF KeyFieldSet(index) \subseteq DOMAIN field_values
        THEN /\ result.err = ""
             /\ DOMAIN result.val =
                    {index.partition_key_name}
                    \cup (IF index.sort_key_name # None THEN {index.sort_key_name} ELSE {})
             /\ result.val[index.partition_key_name] = PartitionText(index)
             /\ index.sort_key_name # None => result.val[index.sort_key_name] = SortText(index)
             /\ result = FullKey(index, Restrict(field_values, KeyFieldSet(index)))
        ELSE result.err = "KeyError"

\* C8 witness: every partition-key field is supplied and a sort-key field is
\* missing; full_key raises KeyError and returns no key.
C8_Witness ==
    /\ Called("full_key")
    /\ index.sort_key_name # None
    /\ PartitionFieldSet(index) # {}
    /\ PartitionFieldSet(index) \subseteq DOMAIN field_values
    /\ ~(SortFieldSet(index) \subseteq DOMAIN field_values)
    /\ result.err = "KeyError"

IndexSegments(idx) ==
    Get(idx.partition_key_format)
    \o (IF IsNone(idx.sort_key_format) THEN <<>> ELSE Get(idx.sort_key_format))
IndexFieldSet(idx) == PartitionFieldSet(idx) \cup SortFieldSet(idx)
LiteralChars(idx) ==
    UNION {CharSet(IndexSegments(idx)[i].lit) : i \in 1..Len(IndexSegments(idx))}

\* No supplied value of a template field contains a character of the
\* templates' literal text.
NoLiteralCharsInValues ==
    \A f \in IndexFieldSet(index) \cap DOMAIN field_values :
        CharSet(PyStr(field_values[f])) \cap LiteralChars(index) = {}

\* Every placeholder that is not the last segment of its template is followed
\* by a non-empty literal.
PlaceholdersSeparated(format_string) ==
    IsNone(format_string) \/
        \A i \in 1..(Len(Get(format_string)) - 1) :
            Get(format_string)[i].field # None => Len(Get(format_string)[i + 1].lit) > 0

\* C9 as claimed: for every index and value map covering its template
\* fields, with no value containing a character of the literal separators,
\* reverse-parsing the keys full_key produced reproduces the original values
\* exactly.
C9_RoundTripExact ==
    (Called("field_values_from_item_keys") /\ NoLiteralCharsInValues) =>
        /\ result.err = ""
        /\ result.val = Restrict(field_values, IndexFieldSet(index))

\* C9 amended: for every index whose templates put a non-empty literal
\* after every placeholder that is not the template's last segment, and every
\* value map covering its template fields with no value containing a character
\* of the literal text, reverse-parsing the keys full_key produced gives, for
\* each template field, str() of the original value (the original value itself
\* when it is a string).
C9_RoundTrip ==
    (/\ Called("field_values_from_item_keys")
     /\ NoLiteralCharsInValues
     /\ PlaceholdersSeparated(index.partition_key_format)
     /\ PlaceholdersSeparated(index.sort_key_format)) =>
        /\ result.err = ""
        /\ result.val = [f \in IndexFieldSet(index) |-> StrVal(PyStr(field_values[f]))]

\* C9 witness: the keys of an index with two or more separated sort-key
\* fields, one of them carrying an integer, are parsed back without error.
C9_Witness ==
    /\ Called("field_values_from_item_keys")
    /\ NoLiteralCharsInValues
    /\ PlaceholdersSeparated(index.partition_key_format)
    /\ PlaceholdersSeparated(index.sort_key_format)
    /\ Len(index.sort_key_format_fields) >= 2
    /\ \E f \in SortFieldSet(index) : field_values[f].type = "int"
    /\ result.err = ""

\* C10: get_ne_conditional(values) on an index with a sort key is the AND of
\* exactly two not-equal predicates, the first on the partition-key attribute
\* with the formatted partition key and the second on the sort-key attribute
\* with the formatted sort key; without a sort key it is the partition-key
\* not-equal predicate alone; a missing template field raises KeyError.
C10_NotEqualGuard ==
    Called("get_ne_conditional") =>
        IF KeyFieldSet(index) \subseteq DOMAIN field_values
        THEN /\ result.err = ""
             /\ result.val =
                    IF index.sort_key_name # None
                    THEN <<Predicate("<>", index.partition_key_name, PartitionText(index)),
                           Predicate("<>", index.sort_key_name, SortText(index))>>
                    ELSE <<Predicate("<>", index.partition_key_name, PartitionText(index))>>
        ELSE result.err = "KeyError"

\* C10 witness: an index with partition and sort keys returns two
\* predicates.
C10_Witness ==
    /\ Called("get_ne_conditional")
    /\ index.sort_key_name # None
    /\ result.err = ""
    /\ Len(result.val) = 2
    /\ result.val[2].operator = "<>"

\* The requests of one call, in the order the store saw them.
RequestsOf(c) == SelectSeq(requests, LAMBDA r : r.call = c)

\* The puts of records at a version other than 0, in the order the store saw
\* them: each carries the version its call was assigned.
VersionedPuts ==
    SelectSeq(requests,
              LAMBDA r : /\ r.operation = "put_item"
                         /\ table.versioning_attribute \in DOMAIN r.argument
                         /\ r.argument[table.versioning_attribute] # IntVal(0))

\* The calls ran one after another: the store saw the requests of each call
\* together, and none of a later call while a call was still running.
OneAfterAnother ==
    /\ \A i, j \in 1..Len(requests) : i < j => requests[i].call <= requests[j].call
    /\ \A w \in Writers :
        writers[w].pc \notin {"idle", "done"} =>
            \A i \in 1..Len(requests) : requests[i].call <= writers[w].call

EveryRequestSucceeded == \A i \in 1..Len(requests) : requests[i].outcome = "ok"

\* Every call that put an item took the version from the store: it read the
\* record at version 0 (put_item without latest_version) or queried the
\* latest item (update_item) before its first put.
VersionsReadFromStore ==
    \A i \in 1..Len(requests) :
        requests[i].operation = "put_item" =>
            \E j \in 1..(i - 1) :
                /\ requests[j].call = requests[i].call
                /\ requests[j].operation \in {"get_item", "query"}

\* C11: on a table with versioning, when the calls that write one logical
\* item run one after another, none is given a latest_version of the
\* caller's choosing and every request succeeds, the k-th write is assigned
\* version k.
C11_SequentialVersions ==
    (/\ table.versioning_enabled /\ OneAfterAnother /\ EveryRequestSucceeded
     /\ VersionsReadFromStore) =>
        \A k \in 1..Len(VersionedPuts) :
            VersionedPuts[k].argument[table.versioning_attribute] = IntVal(k)

\* A caller whose call has returned or raised.
Finished(w) == writers[w].pc = "done" /\ writers[w].op \in {"put_item", "update_item"}

\* The position in the log of the last request of the caller's call, 0 when
\* it made none.
LastRequest(w) ==
    IF \E i \in 1..Len(requests) : requests[i].call = writers[w].call
    THEN CHOOSE i \in 1..Len(requests) :
            /\ requests[i].call = writers[w].call
            /\ \A j \in (i + 1)..Len(requests) : requests[j].call # writers[w].call
    ELSE 0

\* C12: when the store rejects a put on its condition, the call raises
\* nothing and returns status 409 with body code 409 and message "Duplicate
\* entry found!", and makes no further request; an error of the store's own
\* reaches the caller as an exception; a call whose puts all succeeded returns
\* status 201.
C12_DuplicateOutcome ==
    /\ \A i \in 1..Len(requests) :
        requests[i].outcome # "ok" =>
            /\ \A j \in (i + 1)..Len(requests) : requests[j].call # requests[i].call
            /\ \A w \in Writers : writers[w].call = requests[i].call => writers[w].pc = "done"
    /\ \A w \in Writers :
        (Finished(w) /\ LastRequest(w) > 0) =>
            LET last == requests[LastRequest(w)]
            IN  /\ last.outcome = "ConditionalCheckFailedException" =>
                    /\ last.operation = "put_item"
                    /\ writers[w].raised = ""
                    /\ ~IsNone(writers[w].response)
                    /\ Get(writers[w].response).HTTPStatusCode = 409
                    /\ Get(writers[w].response).body.code = 409
                    /\ Get(writers[w].response).body.message = "Duplicate entry found!"
                /\ last.outcome = "ClientError" =>
                    /\ writers[w].raised = "ClientError"
                    /\ IsNone(writers[w].response)
                /\ (last.outcome = "ok" /\ last.operation = "put_item") =>
                    /\ writers[w].raised = ""
                    /\ ~IsNone(writers[w].response)
                    /\ Get(writers[w].response).HTTPStatusCode = 201

\* C12 witness: a put_item without overwrite found the item stored, was
\* rejected on its first put and returned 409.
C12_Witness ==
    \E w \in Writers :
        /\ Finished(w)
        /\ writers[w].op = "put_item"
        /\ ~writers[w].overwrite
        /\ Len(RequestsOf(writers[w].call)) > 0
        /\ requests[LastRequest(w)].outcome = "ConditionalCheckFailedException"
        /\ ~IsNone(writers[w].response)
        /\ Get(writers[w].response).HTTPStatusCode = 409

\* Two calls of put_item with overwrite that both read the latest version
\* before either of them put anything.
BothReadBeforeEitherWrote(v, w) ==
    /\ v # w
    /\ writers[v].op = "put_item" /\ writers[w].op = "put_item"
    /\ writers[v].overwrite /\ writers[w].overwrite
    /\ \E i, j \in 1..Len(requests) :
        /\ requests[i].call = writers[v].call /\ requests[i].operation = "get_item"
        /\ requests[j].call = writers[w].call /\ requests[j].operation = "get_item"
        /\ requests[i].outcome = "ok" /\ requests[j].outcome = "ok"
        /\ \A k \in 1..Len(requests) :
            requests[k].operation = "put_item" => (k > i /\ k > j)

\* The stored records at a version other than 0.
VersionedRecords ==
    {item \in dynamo_table :
        /\ table.versioning_attribute \in DOMAIN item
        /\ item[table.versioning_attribute] # IntVal(0)}

\* C13: two put_item calls with overwrite on one logical item that both read
\* the latest version before either wrote are assigned the same version, and
\* once both have put all their items both have status 201 while the store
\* holds a single versioned record, that of the call whose put came last.
C13_VersionRace ==
    \A v, w \in Writers :
        (table.versioning_enabled /\ BothReadBeforeEitherWrote(v, w)) =>
            /\ \A i, j \in 1..Len(VersionedPuts) :
                VersionedPuts[i].argument[table.versioning_attribute]
                    = VersionedPuts[j].argument[table.versioning_attribute]
            /\ (/\ Finished(v) /\ Finished(w)
                /\ EveryRequestSucceeded
                /\ Len(VersionedPuts) = 2) =>
                    /\ Get(writers[v].response).HTTPStatusCode = 201
                    /\ Get(writers[w].response).HTTPStatusCode = 201
                    /\ VersionedRecords = {VersionedPuts[2].argument}

\* C13 witness: both calls returned 201 and the record the first of them
\* wrote is no longer stored.
C13_Witness ==
    /\ table.versioning_enabled
    /\ \E v, w \in Writers :
        /\ BothReadBeforeEitherWrote(v, w)
        /\ Finished(v) /\ Finished(w)
        /\ EveryRequestSucceeded
        /\ Len(VersionedPuts) = 2
        /\ VersionedPuts[1].call = writers[v].call
        /\ Get(writers[v].response).HTTPStatusCode = 201
        /\ Get(writers[w].response).HTTPStatusCode = 201
        /\ VersionedPuts[1].argument \notin dynamo_table
        /\ VersionedPuts[1].argument.name # VersionedPuts[2].argument.name

\* C14: on a table with versioning is_latest(item) is true for a stored
\* item at version 0 and false for a stored item at version 1 or more; on a
\* table without versioning it is false for every item.
C14_LatestDetection ==
    Called("is_latest") =>
        /\ result.err = ""
        /\ result.val = (/\ table.versioning_enabled
                         /\ field_values[table.versioning_attribute] = IntVal(0))

\* The object a caller's method runs on, as the table holds it now.
SelfNow(c) ==
    IF call[c].op = "get_query_key_condition_expression" THEN table
    ELSE EngineOn(table, call[c].on)

C16_RolePriority ==
    Called("get_query_key_condition_expression") =>
        \A g, l \in SecondaryPositions :
            (/\ table.secondary_indexes[g].is_global_secondary
             /\ table.secondary_indexes[l].is_local_secondary
             /\ ScoreOfSecondary(g) = ScoreOfSecondary(l)
             /\ \A j \in SecondaryPositions : ScoreOfSecondary(j) <= ScoreOfSecondary(g)
             /\ ScoreOfSecondary(g) > ScoreOfPrimary
             /\ result.err = "") =>
                \E i \in SecondaryPositions :
                    /\ table.secondary_indexes[i].is_global_secondary
                    /\ ScoreOfSecondary(i) = ScoreOfSecondary(g)
                    /\ result.val.IndexName = table.secondary_indexes[i].name

\* The pieces of a string: every text between two of its positions.
Pieces(s) == {SubSeq(s, i, j) : i \in 1..(Len(s) + 1), j \in 0..Len(s)}

\* The format string can produce the text: some values of its fields format
\* to it.
Produces(format_string, text) ==
    LET names == FieldSet(FormatStringFieldList(Some(format_string)))
    IN  \E texts \in [names -> Pieces(text)] :
            FormatText(format_string, [f \in names |-> StrVal(texts[f])]) = text

\* C17: reverse_format_string returns field values only for a string its
\* format string can produce; for any other string it ends with an error.
C17_ReverseValidation ==
    Called("reverse_format_string") =>
        (result.err = "" => Produces(call.format_string, call.actual_string))

\* A format string with at least one placeholder.
HasPlaceholder(format_string) ==
    /\ ~IsNone(format_string)
    /\ \E i \in 1..Len(Get(format_string)) : Get(format_string)[i].field # None

\* C18: Index(...) fails if and only if the index type is absent or not a
\* member of IndexType, or a format string has a placeholder and no separator
\* is given, or no format string has one and a separator is given; an index
\* that was constructed has exactly one of is_primary, is_global_secondary and
\* is_local_secondary true, the one of its index type.
C18_ConstructionValidation ==
    Called("__init__") =>
        LET placeholders == \/ HasPlaceholder(call.partition_key_format)
                            \/ HasPlaceholder(call.sort_key_format)
            separator_given == ~IsNone(call.composite_separator)
            role_known == call.index_type \in {Some(PRIMARY), Some(GLOBAL_SECONDARY),
                                                Some(LOCAL_SECONDARY)}
        IN  /\ (result.err # "") <=> (~role_known \/ (placeholders # separator_given))
            /\ result.err = "" =>
                /\ index = result.val
                /\ index.is_primary = (call.index_type = Some(PRIMARY))
                /\ index.is_global_secondary = (call.index_type = Some(GLOBAL_SECONDARY))
                /\ index.is_local_secondary = (call.index_type = Some(LOCAL_SECONDARY))
                /\ Cardinality({flag \in {"is_primary", "is_global_secondary",
                                          "is_local_secondary"} : index[flag]}) = 1

\* C18 witness: a local secondary index was constructed from format strings
\* without placeholders and no separator.
C18_Witness ==
    /\ Called("__init__")
    /\ result.err = ""
    /\ ~HasPlaceholder(call.partition_key_format)
    /\ ~HasPlaceholder(call.sort_key_format)
    /\ ~IsNone(call.sort_key_format)
    /\ IsNone(call.composite_separator)
    /\ index.is_local_secondary
    /\ ~index.is_primary

\* The index get_query_key_condition_expression uses.
UsedIndex ==
    IF PrimaryScoresHighest THEN table.primary_index
    ELSE table.secondary_indexes[CHOOSE i \in SecondaryPositions : FirstBestSecondary(i)]

\* C19: when the value map has every partition-key and sort-key field of the
\* index used and force_key_begins_with is false, the condition returned is
\* the equality on the formatted partition key and the equality on the
\* formatted sort key, on every table, with or without a unique id attribute.
C19_ExactLookup ==
    (/\ Called("get_query_key_condition_expression")
     /\ ~call.force
     /\ UsedIndex.sort_key_name # None
     /\ KeyFieldSet(UsedIndex) \subseteq DOMAIN field_values) =>
        /\ result.err = ""
        /\ result.val.KeyConditionExpression =
            <<Predicate("=", UsedIndex.partition_key_name, PartitionText(UsedIndex)),
              Predicate("=", UsedIndex.sort_key_name, SortText(UsedIndex))>>

\* The indexes of the table, the primary first.
TableIndexes == <<table.primary_index>> \o table.secondary_indexes

\* C20: when some index of the table has every partition-key field in the
\* value map, the index get_query_key_condition_expression uses has every
\* partition-key field in the value map and the call does not end with
\* KeyError for a partition-key field.
C20_UsableIndexSelected ==
    (/\ Called("get_query_key_condition_expression")
     /\ \E i \in 1..Len(TableIndexes) :
            PartitionFieldSet(TableIndexes[i]) \subseteq DOMAIN field_values) =>
        PartitionFieldSet(UsedIndex) \subseteq DOMAIN field_values

\* The score of the index get_query_key_condition_expression uses, which it
\* passes to get_condition_expression as key_score.
ScoreOfUsed ==
    QueryScore(UsedIndex, field_values, table.unique_id_attribute_name)

\* C21: when the index used has a sort key and the value map has all its
\* partition-key fields, get_condition_expression called with the index's own
\* score and force false returns a condition; and a score of exactly 100
\* means every sort-key field is in the value map.
C21_ScoreAndConditionAgree ==
    (/\ Called("get_query_key_condition_expression")
     /\ ~call.force
     /\ UsedIndex.sort_key_name # None
     /\ PartitionFieldSet(UsedIndex) \subseteq DOMAIN field_values) =>
        /\ result.err = ""
        /\ ScoreOfUsed = 100 => SortFieldSet(UsedIndex) \subseteq DOMAIN field_values

\* The value maps that have every sort-key field of the index and agree with
\* the supplied value map on each of its fields.
Completions ==
    {w \in ValueMaps :
        /\ SortFieldSet(index) \subseteq DOMAIN w
        /\ DOMAIN field_values \subseteq DOMAIN w
        /\ \A f \in DOMAIN field_values : w[f] = field_values[f]}

ContiguityCount == LeadingPresent(index.sort_key_format_fields, DOMAIN field_values)

\* The position (from 0) of a field in a list of fields it occurs in.
PositionIn(fields, f) == (CHOOSE i \in 1..Len(fields) : fields[i] = f /\ \A j \in 1..(i - 1) : fields[j] # f) - 1

\* C23: when the value map has every partition-key field and at least one
\* sort-key field, query_score is round(contiguityCount / n * 100 + sortBonus)
\* with n the number of sort-key fields and sortBonus 100 * (n - position) / n
\* for a unique-id field that is a supplied sort-key field; a bonus earned in
\* the partition-key template, 200 * (p - position) / p, is at most added to
\* that as it is, not multiplied by 100 / n.
C23_SortNormalization ==
    (/\ Called("query_score")
     /\ PartitionFieldSet(index) \subseteq DOMAIN field_values
     /\ SortFieldSet(index) \cap DOMAIN field_values # {}) =>
        LET sfields == index.sort_key_format_fields
            pfields == index.partition_key_format_fields
            n == Len(sfields)
            p == Len(pfields)
            supplied(fields) == /\ call.unique_id # None
                                /\ call.unique_id \in FieldSet(fields)
                                /\ call.unique_id \in DOMAIN field_values
            sort_terms == 100 * ContiguityCount
                          + (IF supplied(sfields)
                             THEN 100 * (n - PositionIn(sfields, call.unique_id)) ELSE 0)
        IN  IF supplied(pfields)
            THEN result.val \in
                    {PyRound(sort_terms, n),
                     PyRound(sort_terms * p
                             + 200 * (p - PositionIn(pfields, call.unique_id)) * n, n * p)}
            ELSE result.val = PyRound(sort_terms, n)

\* The put_item requests of one call, in the order the store saw them.
PutsOf(c) == SelectSeq(RequestsOf(c), LAMBDA r : r.operation = "put_item")

\* C24: on a table with versioning, when a call has returned 201 after
\* putting the record at version N and the shadow record, and the store has
\* seen no request since, the stored shadow record carries N in the latest
\* version attribute.
C24_ShadowTracksLatest ==
    table.versioning_enabled =>
        \A w \in Writers :
            (/\ Finished(w)
             /\ ~IsNone(writers[w].response)
             /\ Get(writers[w].response).HTTPStatusCode = 201
             /\ LastRequest(w) = Len(requests)
             /\ Len(PutsOf(writers[w].call)) = 2) =>
                LET record == PutsOf(writers[w].call)[1].argument
                    shadow == PutsOf(writers[w].call)[2].argument
                IN  /\ shadow \in dynamo_table
                    /\ shadow[table.versioning_attribute] = IntVal(0)
                    /\ shadow[table.latest_version_attribute]
                        = record[table.versioning_attribute]

\* The item carries the key attributes of every index of the table, each
\* formatted from the values.
KeyedUnderEveryIndex(item, values) ==
    \A i \in 1..Len(TableIndexes) :
        LET key == FullKey(TableIndexes[i], values)
        IN  /\ key.err = ""
            /\ \A name \in DOMAIN key.val :
                name \in DOMAIN item /\ item[name] = StrVal(key.val[name])

\* C25: a call that returned 201 made, on a table with versioning, exactly
\* two put_item requests, first the record at the version N it was assigned,
\* then the record at version 0, both with the values of the call and with
\* the key attributes of the primary and of every secondary index; on a
\* table without versioning it made exactly one, the record with its keys.
C25_WriteOrder ==
    \A w \in Writers :
        (/\ Finished(w)
         /\ ~IsNone(writers[w].response)
         /\ Get(writers[w].response).HTTPStatusCode = 201) =>
            LET puts == PutsOf(writers[w].call)
                values == writers[w].field_values
                carries(item) ==
                    \A f \in DOMAIN values :
                        f # table.versioning_attribute =>
                            f \in DOMAIN item /\ item[f] = values[f]
            IN  IF table.versioning_enabled
                THEN /\ Len(puts) = 2
                     /\ puts[1].argument[table.versioning_attribute]
                            = values[table.versioning_attribute]
                     /\ values[table.versioning_attribute] # IntVal(0)
                     /\ puts[2].argument[table.versioning_attribute] = IntVal(0)
                     /\ carries(puts[1].argument) /\ carries(puts[2].argument)
                     /\ KeyedUnderEveryIndex(puts[1].argument, values)
                     /\ KeyedUnderEveryIndex(puts[2].argument,
                            DictSet(values, table.versioning_attribute, IntVal(0)))
                ELSE /\ Len(puts) = 1
                     /\ carries(puts[1].argument)
                     /\ KeyedUnderEveryIndex(puts[1].argument, values)

\* C25 witness: a put_item on the table with versioning and a secondary
\* index returned 201 after its two puts.
C25_Witness ==
    /\ table.versioning_enabled
    /\ Len(table.secondary_indexes) > 0
    /\ \E w \in Writers :
        /\ Finished(w)
        /\ writers[w].op = "put_item"
        /\ ~IsNone(writers[w].response)
        /\ Get(writers[w].response).HTTPStatusCode = 201
        /\ Len(PutsOf(writers[w].call)) = 2

\* C26: a put_item(overwrite=False) that returned the 409 duplicate outcome
\* stored none of its items: no put_item request of the call was accepted by
\* the store, so the store holds what it held before the call.
C26_NoPartialWrite ==
    OneAfterAnother =>
        \A w \in Writers :
            (/\ Finished(w)
             /\ writers[w].op = "put_item"
             /\ ~writers[w].overwrite
             /\ ~IsNone(writers[w].response)
             /\ Get(writers[w].response).HTTPStatusCode = 409) =>
                \A i \in 1..Len(PutsOf(writers[w].call)) :
                    PutsOf(writers[w].call)[i].outcome # "ok"

\* The key condition of the last query request, as text: the operator and
\* value on the attribute, <<>> when the condition has none on it.
LastQuery == requests[Len(requests)].argument

ConditionOn(query_args, name) ==
    LET on == SelectSeq(query_args.KeyConditionExpression, LAMBDA p : p.name = name)
    IN  IF Len(on) = 0 THEN <<>> ELSE <<on[1].operator, on[1].value>>

\* C27: get_items on a table with versioning selects the index and builds
\* the condition on the caller's values with the versioning attribute set to
\* 0 when the caller gave none, and on the caller's own version otherwise;
\* given only tenant_id on the test table it queries the primary index for
\* sort keys that begin with "datadefinition:v0:" ("datadefinition:v0" when
\* force_key_begins_with is set).
C27_DefaultToLatest ==
    (call.op = "get_items" /\ table.versioning_enabled) =>
        LET given == ParamsCleanup(call.field_values, call.null_if_empty)
            expected == IF "version" \in DOMAIN given THEN given
                        ELSE DictSet(given, "version", IntVal(0))
            query_args == GetQueryKeyConditionExpression(table, expected, call.force)
        IN  /\ field_values = expected
            /\ "version" \in DOMAIN call.field_values =>
                   field_values["version"] = call.field_values["version"]
            /\ IF query_args.err # "" THEN result = query_args
               ELSE Len(requests) = 1 /\ LastQuery = query_args.val
            /\ (table \in {TestTable(FALSE), TestTable(TRUE)}
                /\ DOMAIN call.field_values = {"tenant_id"}) =>
                   /\ result.err = ""
                   /\ LastQuery.IndexName = None
                   /\ ConditionOn(LastQuery, "pk") = <<"=", <<"1">>>>
                   /\ ConditionOn(LastQuery, "ps")
                        = <<"begins_with",
                            DataDefinition \o (IF call.force THEN <<":", "v", "0">>
                                               ELSE <<":", "v", "0", ":">>)>>

\* C27 witness: get_items was called on the test table with tenant_id alone,
\* and the store holds records at version 0 and version 1.
C27_Witness ==
    /\ call.op = "get_items"
    /\ table = TestTable(FALSE)
    /\ DOMAIN call.field_values = {"tenant_id"}
    /\ dynamo_table # {}
    /\ result.err = ""
    /\ Len(result.val.Items) > 0

\* C28: with the logger at its default level, a delete_item whose key query
\* matches at least one item issues one batch_write_item with the primary
\* key of every matched item in query order and returns {item, deleted:
\* True} with no key attribute left in item; one whose query matches none
\* returns the 404 response and issues no delete; and the store never
\* changes in a call that raises.
C28_DeleteOutcome ==
    [][(call.op = "idle" /\ call'.op = "delete_item" /\ ~table.debug) =>
        LET query_args == GetQueryKeyConditionExpression(
                              table, ParamsCleanup(field_values, TRUE), FALSE)
            matched == Query(dynamo_table, table, query_args.val)
            sent == SelectSeq(requests', LAMBDA r : r.operation = "batch_write_item")
        IN  /\ dynamo_table' # dynamo_table => result'.err = ""
            /\ query_args.err = "" =>
                IF Len(matched) >= 1
                THEN /\ Len(sent) = 1
                     /\ sent[1].argument
                            = [i \in 1..Len(matched) |->
                                  Project(matched[i], PrimaryKeyNames(table))]
                     /\ result'.err = ""
                     /\ result'.val.body.deleted
                     /\ DOMAIN result'.val.body.item \cap GetAllKeyFieldNames(table) = {}
                ELSE /\ Len(sent) = 0
                     /\ dynamo_table' = dynamo_table
                     /\ result' = Ok(NoneFound)]_vars

\* The number of positions of a list that hold the element.
Occurrences(list, element) == Cardinality({i \in 1..Len(list) : list[i] = element})

\* C29: whatever calls were made, attribute_list is the list given at
\* construction, and get_expression without fields projects every declared
\* attribute exactly once.
C29_SchemaUnchanged ==
    /\ table.attribute_list = TestAttributeList
    /\ (call.op = "get_expression" /\ call.unique_id = <<>>) =>
        /\ result.err = ""
        /\ Len(result.val.ProjectionExpression) = Len(TestAttributeList)
        /\ \A i \in 1..Len(TestAttributeList) :
            Occurrences(result.val.ProjectionExpression,
                        IF TestAttributeList[i] = "name" THEN <<"#", "n">>
                        ELSE FieldChars(TestAttributeList[i])) = 1

\* C30: get_expression returns for every list of field names.
C30_AliasingTerminates == <>(call.op = "done")

=============================================================================
